---- MODULE Spec2Model ----
(***************************************************************************)
(* Model of the appointment queue of sqip: the Appointment table, the      *)
(* status of organizations and categories, and the request handlers of     *)
(* main/appointments/views.py with the serializers and service functions   *)
(* they call.  A handler is an operator from the table and the request to  *)
(* [code, errors, db] (the response and the table it leaves); the action   *)
(* of the handler installs that table.                                     *)
(***************************************************************************)
EXTENDS Integers, Sequences, FiniteSets, TLC

\* ------------------------------------------------------------------ bounds
\* Largest number of Appointment rows the model creates.
MaxAppts == 3
\* Largest counter the model lets a row take (the counters the handlers
\* assign are not bounded by the number of rows).
MaxCounter == 3

\* ------------------------------------------------------- fixture of the DB
\* Rows of the tables the handlers only read.  User 3 is staff, user 2 is a
\* member of the group of category 1, user 1 has no group.  Category 1 is
\* of organization 1 and takes scheduled appointments; category 2 is of
\* organization 2 and is not active.
Users == {1, 2, 3}
Organizations == {1, 2}
Categories == {1, 2}

None == -1

category_organization(c) == c
category_is_scheduled(c) == c = 1
is_staff(u) == u = 3
get_authorized_categories_for_user(u) == IF u = 2 THEN {1} ELSE {}

\* Instants are minutes after midnight of the one day the model covers; the
\* clock of the server stands at now.  A time of day as the hours of a
\* category write it, "HH:MM", is the pair <<HH, MM>>.
now == 1
max_advance_days(c) == 7

\* The hours of the one weekday of the fixture's scheduled category: open
\* 00:02-00:06, a break 00:04-00:05, appointments of 2 minutes.
CategoryHours ==
    [opening |-> << << <<0, 2>>, <<0, 6>> >> >>,
     breaks |-> << << <<0, 4>>, <<0, 5>> >> >>,
     interval |-> 2]

STATUS_CHOICES == {"active", "inactive", "checkin", "cancel"}

\* ---------------------------------------------------------------- messages
MSG_ORG_FIELD == "Organization does not exist or is not active."
MSG_CAT_FIELD == "Category does not exist or is not active."
MSG_CAT_NOT_SCHEDULED == "Category does not accept appointments."
MSG_ORG == "Organization does not exist or is not accepting appointments."
MSG_CAT == "Category does not exist or is not accepting appointments."
MSG_DUP == "Appointment already exists."
MSG_NO_APPT == "Appointment with this ID does not exist."
MSG_UNAUTHORIZED == "Unauthorized to access this appointment."
MSG_NOT_EXIST == "Appointment does not exist."
MSG_SAME_ID == "The current appointment ID cannot be the same as the previous appointment ID."
MSG_ALREADY == "Invalid Appointment: Already active or scheduled."
MSG_PAST == "Scheduled time cannot be in the past."
MSG_ADVANCE == "Scheduled time cannot be more than max_advance_days days in advance."
MSG_CLOSED == "Not accepting appointments for weekday."
MSG_HOURS == "Scheduled time is not within allowed hours."
MSG_ALIGN == "Scheduled time must match one of the available start times."
MSG_TAKEN == "The selected time slot is already taken."
MSG_UNHANDLED == "unhandled exception"

VARIABLES
    appts,       \* the Appointment table: row id -> row
    orgStatus,   \* Organization.status per organization
    catStatus,   \* Category.status per category
    hours,       \* per category: opening_hours and break_hours of the
                 \* weekday and time_interval_per_appointment in minutes
    slots,       \* the outcome of the last call of generate_time_slots with
                 \* the hours of category 1; called is FALSE before the first
    inflight,    \* the requests being served at once: the table they
                 \* started on and, per worker, the request, its position
                 \* in the handler and what the handler holds in memory
    tiling       \* a call of validate_scheduled_appointment followed
                 \* statement by statement through the loops of step 3 of
                 \* generate_time_slots

vars == <<appts, orgStatus, catStatus, hours, slots, inflight, tiling>>

opening_hours(c) == hours[c].opening
break_hours(c) == hours[c].breaks
time_interval_per_appointment(c) == hours[c].interval

\* ------------------------------------------------------------------ helpers
Max(S) == CHOOSE x \in S : \A y \in S : y <= x
Min(S) == CHOOSE x \in S : \A y \in S : x <= y

Ids(db) == DOMAIN db

\* The rows of the counter queue of (organization, category).
Partition(db, organization, category) ==
    {i \in Ids(db) : /\ db[i].organization = organization
                     /\ db[i].category = category
                     /\ db[i].status = "active"
                     /\ db[i].is_scheduled = FALSE}

\* The bound on the counters, a guard of the steps that assign one.
WithinBounds(db) == \A i \in Ids(db) : db[i].counter <= MaxCounter

Resp(code, errors, db) == [code |-> code, errors |-> errors, db |-> db]

\* ------------------------------------------------------------ main/service.py
check_organization_is_active(organization_id) ==
    IF organization_id \in Organizations /\ orgStatus[organization_id] = "active"
    THEN organization_id ELSE None

\* organization = None stands for the call without an organization.
check_category_is_active(category_id, organization) ==
    IF /\ category_id \in Categories
       /\ catStatus[category_id] = "active"
       /\ (organization # None => category_organization(category_id) = organization)
    THEN category_id ELSE None

check_user_exists(user_id) == IF user_id \in Users THEN user_id ELSE None

check_duplicate_appointment(db, user, organization, category) ==
    \E i \in Ids(db) : /\ db[i].organization = organization
                       /\ db[i].category = category
                       /\ db[i].user = user
                       /\ db[i].status = "active"

\* get_last_counter_for_appointment without the filters on status and
\* is_scheduled.
get_last_counter_all_rows(db, organization, category) ==
    LET S == {db[i].counter : i \in {j \in Ids(db) :
                  db[j].organization = organization /\ db[j].category = category}}
    IN  IF S # {} /\ Max(S) # 0 THEN Max(S) + 1 ELSE 1

get_last_counter_for_appointment(db, organization, category) ==
    LET S == {db[i].counter : i \in Partition(db, organization, category)}
    IN  IF S # {} /\ Max(S) # 0 THEN Max(S) + 1 ELSE 1

get_first_counter_for_appointment(db, organization, category) ==
    LET S == {db[i].counter : i \in Partition(db, organization, category)}
    IN  IF S # {} THEN Min(S) - 1 ELSE 0

\* status = "any" stands for ignore_status=True.
get_appointment_by_id(db, appointment_id, status) ==
    IF appointment_id \in Ids(db) /\ (status = "any" \/ db[appointment_id].status = status)
    THEN appointment_id ELSE None

\* Result: "none" (not found), "true" or "false".
check_if_user_has_authorized_category_access(db, appointment_id, user, check_creator) ==
    LET appointment == get_appointment_by_id(db, appointment_id, "any")
    IN  IF appointment = None THEN "none"
        ELSE IF check_creator /\ db[appointment].user = user THEN "true"
        ELSE IF db[appointment].category \in get_authorized_categories_for_user(user)
             THEN "true" ELSE "false"

\* adjust_appointment_counter with counter__gte in place of counter__gt.
adjust_appointment_counter_gte(db, appointment, increment, reference_counter, counter_limit) ==
    [i \in Ids(db) |->
        IF /\ db[i].organization = appointment.organization
           /\ db[i].category = appointment.category
           /\ db[i].status = "active"
           /\ db[i].counter >= reference_counter
           /\ db[i].is_scheduled = FALSE
           /\ (counter_limit # <<>> => db[i].counter < counter_limit[1])
        THEN [db[i] EXCEPT !.counter = @ + (IF increment THEN 1 ELSE -1)]
        ELSE db[i]]

\* adjust_appointment_counter without is_scheduled in the filter.
adjust_appointment_counter_scheduled_too(db, appointment, increment, reference_counter, counter_limit) ==
    [i \in Ids(db) |->
        IF /\ db[i].organization = appointment.organization
           /\ db[i].category = appointment.category
           /\ db[i].status = "active"
           /\ db[i].counter > reference_counter
           /\ (counter_limit # <<>> => db[i].counter < counter_limit[1])
        THEN [db[i] EXCEPT !.counter = @ + (IF increment THEN 1 ELSE -1)]
        ELSE db[i]]

\* counter_limit is <<>> for None and <<n>> for the limit n.
adjust_appointment_counter(db, appointment, increment, reference_counter, counter_limit) ==
    [i \in Ids(db) |->
        IF /\ db[i].organization = appointment.organization
           /\ db[i].category = appointment.category
           /\ db[i].status = "active"
           /\ db[i].counter > reference_counter
           /\ db[i].is_scheduled = FALSE
           /\ (counter_limit # <<>> => db[i].counter < counter_limit[1])
        THEN [db[i] EXCEPT !.counter = @ + (IF increment THEN 1 ELSE -1)]
        ELSE db[i]]

\* set_appointment_status_and_update_counter without the call of
\* adjust_appointment_counter.
set_appointment_status_only(db, appointment_id, status) ==
    IF status \notin STATUS_CHOICES
    THEN [ok |-> FALSE, db |-> db, msg |-> "Invalid status choice."]
    ELSE IF get_appointment_by_id(db, appointment_id, "any") = None
    THEN [ok |-> FALSE, db |-> db, msg |-> MSG_NOT_EXIST]
    ELSE [ok |-> TRUE, db |-> [db EXCEPT ![appointment_id].status = status], msg |-> ""]

\* Result: [ok, db, msg]; the handlers always call it with ignore_status=True.
set_appointment_status_and_update_counter(db, appointment_id, status) ==
    IF status \notin STATUS_CHOICES
    THEN [ok |-> FALSE, db |-> db, msg |-> "Invalid status choice."]
    ELSE IF get_appointment_by_id(db, appointment_id, "any") = None
    THEN [ok |-> FALSE, db |-> db, msg |-> MSG_NOT_EXIST]
    ELSE LET saved == [db EXCEPT ![appointment_id].status = status]
             appointment == saved[appointment_id]
         IN  [ok |-> TRUE,
              db |-> IF appointment.status # "active"
                     THEN adjust_appointment_counter(saved, appointment, FALSE,
                                                     appointment.counter, <<>>)
                     ELSE saved,
              msg |-> ""]

\* is_slot_available without status="active" in the filter.
is_slot_available_any_status(db, category, scheduled_time) ==
    LET start_time == scheduled_time
        end_time == start_time + time_interval_per_appointment(category)
    IN  ~ \E i \in Ids(db) :
            /\ db[i].category = category
            /\ db[i].scheduled_time # None
            /\ db[i].scheduled_end_time # None
            /\ db[i].scheduled_time < end_time
            /\ db[i].scheduled_end_time > start_time

\* is_slot_available with the two comparisons not strict: a booking that
\* ends at the proposed start, or starts at the proposed end, blocks.
is_slot_available_touching(db, category, scheduled_time) ==
    LET start_time == scheduled_time
        end_time == start_time + time_interval_per_appointment(category)
    IN  ~ \E i \in Ids(db) :
            /\ db[i].category = category
            /\ db[i].status = "active"
            /\ db[i].scheduled_time # None
            /\ db[i].scheduled_end_time # None
            /\ db[i].scheduled_time <= end_time
            /\ db[i].scheduled_end_time >= start_time

is_slot_available(db, category, scheduled_time) ==
    LET start_time == scheduled_time
        end_time == start_time + time_interval_per_appointment(category)
    IN  ~ \E i \in Ids(db) :
            /\ db[i].category = category
            /\ db[i].status = "active"
            /\ db[i].scheduled_time # None
            /\ db[i].scheduled_end_time # None
            /\ db[i].scheduled_time < end_time
            /\ db[i].scheduled_end_time > start_time

\* ------------------------------------------------- main/appointments/utils.py
\* datetime.strptime(time_str, "%H:%M"), as minutes after midnight.
str_to_time(time_str) == time_str[1] * 60 + time_str[2]

\* time_obj.strftime("%H:%M"): the day of the datetime is not written.
time_to_str(time_obj) == <<(time_obj \div 60) % 24, time_obj % 60>>

\* The break ranges in the order given, for sorted(break_ranges).
UnsortedRanges(ranges) == ranges

RECURSIVE SortRanges(_)
\* sorted(break_ranges): ascending by start, then by end.
SortRanges(ranges) ==
    IF ranges = <<>> THEN <<>>
    ELSE LET least == CHOOSE k \in DOMAIN ranges :
                          \A j \in DOMAIN ranges :
                              \/ ranges[k][1] < ranges[j][1]
                              \/ /\ ranges[k][1] = ranges[j][1]
                                 /\ ranges[k][2] <= ranges[j][2]
             rest == [j \in 1..(Len(ranges) - 1) |->
                          IF j < least THEN ranges[j] ELSE ranges[j + 1]]
         IN  <<ranges[least]>> \o SortRanges(rest)

RECURSIVE UsableBlocks(_, _, _)
\* Step 2 of generate_time_slots, from the break at the head of breaks on.
UsableBlocks(current_start, breaks, opening_end) ==
    IF breaks = <<>>
    THEN IF current_start < opening_end THEN <<<<current_start, opening_end>>>> ELSE <<>>
    ELSE LET break_start == Head(breaks)[1]
             break_end == Head(breaks)[2]
             block == IF current_start < break_start
                      THEN <<<<current_start, break_start>>>> ELSE <<>>
             next_start == IF current_start >= break_end THEN current_start ELSE break_end
         IN  block \o UsableBlocks(next_start, Tail(breaks), opening_end)

RECURSIVE BlockSlots(_, _, _)
\* The while loop of step 3 for one block.
BlockSlots(current_time, block_end, interval_minutes) ==
    IF current_time + interval_minutes <= block_end
    THEN <<<<current_time, current_time + interval_minutes>>>>
         \o BlockSlots(current_time + interval_minutes, block_end, interval_minutes)
    ELSE <<>>

RECURSIVE AllSlots(_, _)
AllSlots(blocks, interval_minutes) ==
    IF blocks = <<>> THEN <<>>
    ELSE BlockSlots(Head(blocks)[1], Head(blocks)[2], interval_minutes)
         \o AllSlots(Tail(blocks), interval_minutes)

\* The outcome of a call: raised tells that opening_hours[0] of an empty list
\* raised IndexError, slots is the list returned otherwise.
generate_time_slots(opening, breaks, interval_minutes) ==
    IF opening = <<>> THEN [raised |-> TRUE, slots |-> <<>>]
    ELSE LET opening_start == str_to_time(opening[1][1])
             opening_end == str_to_time(opening[1][2])
             break_ranges == [k \in DOMAIN breaks |->
                                 <<str_to_time(breaks[k][1]), str_to_time(breaks[k][2])>>]
             found == AllSlots(UsableBlocks(opening_start, SortRanges(break_ranges),
                                            opening_end),
                               interval_minutes)
         IN  [raised |-> FALSE,
              slots |-> [k \in DOMAIN found |->
                            <<time_to_str(found[k][1]), time_to_str(found[k][2])>>]]

\* ----------------------------------------------- main/appointments/service.py
\* handle_appointment_scheduling with the duplicate check moved before the
\* checks of the organization and the category.
handle_appointment_scheduling_duplicate_first(db, organization_id, category_id, user_id) ==
    LET organization == check_organization_is_active(organization_id)
        category == check_category_is_active(category_id, organization)
    IN  IF check_duplicate_appointment(db, user_id, organization_id, category_id)
        THEN [counter |-> None, msg |-> MSG_DUP]
        ELSE IF organization = None THEN [counter |-> None, msg |-> MSG_ORG]
        ELSE IF category = None THEN [counter |-> None, msg |-> MSG_CAT]
        ELSE [counter |-> get_last_counter_for_appointment(db, organization, category),
              msg |-> ""]

\* handle_appointment_scheduling without the call of
\* check_duplicate_appointment.
handle_appointment_scheduling_no_duplicate_check(db, organization_id, category_id, user_id) ==
    LET organization == check_organization_is_active(organization_id)
        category == check_category_is_active(category_id, organization)
    IN  IF organization = None THEN [counter |-> None, msg |-> MSG_ORG]
        ELSE IF category = None THEN [counter |-> None, msg |-> MSG_CAT]
        ELSE [counter |-> get_last_counter_for_appointment(db, organization, category),
              msg |-> ""]

\* Result: [counter, msg]; msg = "" stands for no error.
handle_appointment_scheduling(db, organization_id, category_id, user_id) ==
    LET organization == check_organization_is_active(organization_id)
        category == check_category_is_active(category_id, organization)
    IN  IF organization = None THEN [counter |-> None, msg |-> MSG_ORG]
        ELSE IF category = None THEN [counter |-> None, msg |-> MSG_CAT]
        ELSE IF check_duplicate_appointment(db, user_id, organization, category)
             THEN [counter |-> None, msg |-> MSG_DUP]
        ELSE [counter |-> get_last_counter_for_appointment(db, organization, category),
              msg |-> ""]

\* move_appointment without previous_appointment.refresh_from_db(): the new
\* counter of current is computed from the counter previous had before the
\* shift.
move_appointment_stale_previous(db, current_appointment_id, previous_appointment_id) ==
    LET current == db[current_appointment_id]
        inactive == [db EXCEPT ![current_appointment_id].status = "inactive"]
        first_counter == get_first_counter_for_appointment(
                             inactive, current.organization, current.category)
        previous_counter == db[previous_appointment_id].counter
        shifted ==
            IF previous_appointment_id = None
            THEN adjust_appointment_counter(inactive, current, TRUE,
                                            first_counter, <<current.counter>>)
            ELSE IF current.counter < previous_counter
            THEN adjust_appointment_counter(inactive, current, FALSE,
                                            current.counter, <<previous_counter + 1>>)
            ELSE IF current.counter > previous_counter
            THEN adjust_appointment_counter(inactive, current, TRUE,
                                            previous_counter, <<current.counter>>)
            ELSE inactive
        counter ==
            IF previous_appointment_id = None THEN first_counter + 1
            ELSE IF current.counter # previous_counter THEN previous_counter + 1
            ELSE current.counter
    IN  [shifted EXCEPT ![current_appointment_id].status = "active",
                        ![current_appointment_id].counter = counter]

\* move_appointment with the reactivation of current inside the three
\* branches: when no branch applies the row stays inactive.
move_appointment_reactivate_in_branch(db, current_appointment_id, previous_appointment_id) ==
    LET current == db[current_appointment_id]
        inactive == [db EXCEPT ![current_appointment_id].status = "inactive"]
        first_counter == get_first_counter_for_appointment(
                             inactive, current.organization, current.category)
        previous_counter == db[previous_appointment_id].counter
    IN  IF previous_appointment_id = None
        THEN [adjust_appointment_counter(inactive, current, TRUE,
                                         first_counter, <<current.counter>>)
                 EXCEPT ![current_appointment_id].status = "active",
                        ![current_appointment_id].counter = first_counter + 1]
        ELSE IF current.counter < previous_counter
        THEN LET shifted == adjust_appointment_counter(
                                inactive, current, FALSE,
                                current.counter, <<previous_counter + 1>>)
             IN  [shifted EXCEPT
                     ![current_appointment_id].status = "active",
                     ![current_appointment_id].counter =
                         shifted[previous_appointment_id].counter + 1]
        ELSE IF current.counter > previous_counter
        THEN LET shifted == adjust_appointment_counter(
                                inactive, current, TRUE,
                                previous_counter, <<current.counter>>)
             IN  [shifted EXCEPT
                     ![current_appointment_id].status = "active",
                     ![current_appointment_id].counter =
                         shifted[previous_appointment_id].counter + 1]
        ELSE inactive

\* The table after move_appointment, for an active current appointment and a
\* previous appointment that is None or active.
move_appointment(db, current_appointment_id, previous_appointment_id) ==
    LET current == db[current_appointment_id]
        inactive == [db EXCEPT ![current_appointment_id].status = "inactive"]
        first_counter == get_first_counter_for_appointment(
                             inactive, current.organization, current.category)
        previous_counter == db[previous_appointment_id].counter
        shifted ==
            IF previous_appointment_id = None
            THEN adjust_appointment_counter(inactive, current, TRUE,
                                            first_counter, <<current.counter>>)
            ELSE IF current.counter < previous_counter
            THEN adjust_appointment_counter(inactive, current, FALSE,
                                            current.counter, <<previous_counter + 1>>)
            ELSE IF current.counter > previous_counter
            THEN adjust_appointment_counter(inactive, current, TRUE,
                                            previous_counter, <<current.counter>>)
            ELSE inactive
        counter ==
            IF previous_appointment_id = None THEN first_counter + 1
            ELSE IF current.counter # previous_counter
            THEN shifted[previous_appointment_id].counter + 1
            ELSE current.counter
    IN  [shifted EXCEPT ![current_appointment_id].status = "active",
                        ![current_appointment_id].counter = counter]

\* activate_appointment without the test of is_scheduled.
activate_appointment_scheduled_too(db, appointment_id) ==
    LET appointment == db[appointment_id]
        r == handle_appointment_scheduling(db, appointment.organization,
                                           appointment.category, appointment.user)
    IN  IF appointment.status = "active"
        THEN [ok |-> FALSE, db |-> db, msg |-> MSG_ALREADY]
        ELSE IF r.msg # ""
        THEN [ok |-> FALSE, db |-> db, msg |-> "Scheduling Error: " \o r.msg]
        ELSE [ok |-> TRUE,
              db |-> [db EXCEPT ![appointment_id].counter = r.counter,
                                ![appointment_id].status = "active"],
              msg |-> ""]

\* activate_appointment without the assignment of the new counter.
activate_appointment_stale_counter(db, appointment_id) ==
    LET appointment == db[appointment_id]
        r == handle_appointment_scheduling(db, appointment.organization,
                                           appointment.category, appointment.user)
    IN  IF appointment.status = "active" \/ appointment.is_scheduled
        THEN [ok |-> FALSE, db |-> db, msg |-> MSG_ALREADY]
        ELSE IF r.msg # ""
        THEN [ok |-> FALSE, db |-> db, msg |-> "Scheduling Error: " \o r.msg]
        ELSE [ok |-> TRUE,
              db |-> [db EXCEPT ![appointment_id].status = "active"],
              msg |-> ""]

\* Result: [ok, db, msg], for an appointment id that exists.
activate_appointment(db, appointment_id) ==
    LET appointment == db[appointment_id]
        r == handle_appointment_scheduling(db, appointment.organization,
                                           appointment.category, appointment.user)
    IN  IF appointment.status = "active" \/ appointment.is_scheduled
        THEN [ok |-> FALSE, db |-> db, msg |-> MSG_ALREADY]
        ELSE IF r.msg # ""
        THEN [ok |-> FALSE, db |-> db, msg |-> "Scheduling Error: " \o r.msg]
        ELSE [ok |-> TRUE,
              db |-> [db EXCEPT ![appointment_id].counter = r.counter,
                                ![appointment_id].status = "active"],
              msg |-> ""]

\* is_within_ranges with the end of a range taken in: time <= end_time.
is_within_ranges_closed_end(time, ranges) ==
    \E k \in DOMAIN ranges :
        LET start_time == ranges[k][1][1] * 60 + ranges[k][1][2]
            end_time == ranges[k][2][1] * 60 + ranges[k][2][2]
        IN  start_time <= time /\ time <= end_time

\* scheduled_time.replace(hour=..., minute=..., second=0) of the two ends of
\* each range, then start_time <= time < end_time.
is_within_ranges(time, ranges) ==
    \E k \in DOMAIN ranges :
        LET start_time == ranges[k][1][1] * 60 + ranges[k][1][2]
            end_time == ranges[k][2][1] * 60 + ranges[k][2][2]
        IN  start_time <= time /\ time < end_time

is_within_opening_hours(scheduled_time, opening, breaks) ==
    /\ is_within_ranges(scheduled_time, opening)
    /\ ~is_within_ranges(scheduled_time, breaks)

\* The start times the message of validate_time_alignment lists:
\* ', '.join(slot[0] for slot in valid_slots).
validate_time_alignment_listed(interval_minutes, opening, breaks) ==
    LET valid_slots == generate_time_slots(opening, breaks, interval_minutes).slots
    IN  [k \in DOMAIN valid_slots |-> valid_slots[k][1]]

\* validate_time_alignment with the ends of the slots taken for start times.
validate_time_alignment_slot_ends(scheduled_time, interval_minutes, opening, breaks) ==
    LET valid_slots == generate_time_slots(opening, breaks, interval_minutes).slots
        valid_start_times == {str_to_time(valid_slots[k][2]) : k \in DOMAIN valid_slots}
    IN  IF scheduled_time \notin valid_start_times THEN MSG_ALIGN ELSE ""

\* Result: the message of the ValidationError, "" for none.
validate_time_alignment(scheduled_time, interval_minutes, opening, breaks) ==
    LET valid_slots == generate_time_slots(opening, breaks, interval_minutes).slots
        valid_start_times == {str_to_time(valid_slots[k][1]) : k \in DOMAIN valid_slots}
    IN  IF scheduled_time \notin valid_start_times THEN MSG_ALIGN ELSE ""

\* validate_scheduled_appointment with is_slot_available asked before
\* validate_time_alignment.
validate_scheduled_appointment_slot_first(db, category, scheduled_time) ==
    LET interval_minutes == time_interval_per_appointment(category)
        opening == opening_hours(category)
        breaks == break_hours(category)
    IN  IF opening = <<>> THEN MSG_CLOSED
        ELSE IF ~is_within_opening_hours(scheduled_time, opening, breaks) THEN MSG_HOURS
        ELSE IF ~is_slot_available(db, category, scheduled_time) THEN MSG_TAKEN
        ELSE IF validate_time_alignment(scheduled_time, interval_minutes,
                                        opening, breaks) # ""
             THEN MSG_ALIGN
        ELSE ""

\* validate_scheduled_appointment without the call of is_slot_available.
validate_scheduled_appointment_no_slot_check(db, category, scheduled_time) ==
    LET interval_minutes == time_interval_per_appointment(category)
        opening == opening_hours(category)
        breaks == break_hours(category)
    IN  IF opening = <<>> THEN MSG_CLOSED
        ELSE IF ~is_within_opening_hours(scheduled_time, opening, breaks) THEN MSG_HOURS
        ELSE IF validate_time_alignment(scheduled_time, interval_minutes,
                                        opening, breaks) # ""
             THEN MSG_ALIGN
        ELSE ""

\* Result: the message of the ValidationError, "" for none.
validate_scheduled_appointment(db, category, scheduled_time) ==
    LET interval_minutes == time_interval_per_appointment(category)
        opening == opening_hours(category)
        breaks == break_hours(category)
    IN  IF opening = <<>> THEN MSG_CLOSED
        ELSE IF ~is_within_opening_hours(scheduled_time, opening, breaks) THEN MSG_HOURS
        ELSE IF validate_time_alignment(scheduled_time, interval_minutes,
                                        opening, breaks) # ""
             THEN MSG_ALIGN
        ELSE IF ~is_slot_available(db, category, scheduled_time) THEN MSG_TAKEN
        ELSE ""

\* ------------------------------------------- main/appointments/serializers.py
\* The errors of the field validators of ValidateAppointmentInput; the
\* object-level validate() runs only when there is none.
ValidateAppointmentInputFields(organization, category, user) ==
    (IF check_organization_is_active(organization) = None THEN {MSG_ORG_FIELD} ELSE {})
    \cup (IF check_category_is_active(category, None) = None THEN {MSG_CAT_FIELD} ELSE {})
    \cup (IF check_user_exists(user) = None THEN {"User does not exist."} ELSE {})

\* The final test of both validate() methods.
UnauthorizedForUser(actor, user, category) ==
    /\ actor # user
    /\ ~is_staff(actor)
    /\ category \notin get_authorized_categories_for_user(actor)

\* BaseAppointmentIDValidatorSerializer with "if not response" in place of
\* "if response is None": a refusal is reported as a missing appointment.
BaseAppointmentIDValidatorSerializer_falsy(db, actor, appointment_id, check_creator) ==
    IF is_staff(actor) THEN "ok"
    ELSE LET r == check_if_user_has_authorized_category_access(
                      db, appointment_id, actor, check_creator)
         IN  IF r = "none" \/ r = "false" THEN "notfound"
             ELSE "ok"

\* Result: "ok", "notfound" (ValidationError) or "unauthorized" (403).
BaseAppointmentIDValidatorSerializer(db, actor, appointment_id, check_creator) ==
    IF is_staff(actor) THEN "ok"
    ELSE LET r == check_if_user_has_authorized_category_access(
                      db, appointment_id, actor, check_creator)
         IN  IF r = "none" THEN "notfound"
             ELSE IF r = "false" THEN "unauthorized"
             ELSE "ok"

\* Result: "ok", "notfound", "unauthorized", "same" or "prevnotfound".
MoveAppointmentIDValidatorSerializer(db, actor, appointment_id, previous_appointment_id) ==
    LET base == BaseAppointmentIDValidatorSerializer(db, actor, appointment_id, FALSE)
    IN  IF base # "ok" THEN base
        ELSE IF previous_appointment_id = None THEN "ok"
        ELSE IF appointment_id = previous_appointment_id THEN "same"
        ELSE IF get_appointment_by_id(db, previous_appointment_id, "active") = None
             THEN "prevnotfound"
        ELSE "ok"

\* The response to a request an ID serializer rejects.
Rejection(db, verdict) ==
    CASE verdict = "notfound"     -> Resp(400, {MSG_NO_APPT}, db)
      [] verdict = "prevnotfound" -> Resp(400, {MSG_NO_APPT}, db)
      [] verdict = "same"         -> Resp(400, {MSG_SAME_ID}, db)
      [] verdict = "unauthorized" -> Resp(403, {MSG_UNAUTHORIZED}, db)

\* The errors of the field validators of ValidateScheduledAppointmentInput.
ValidateScheduledAppointmentInputFields(organization, category, user) ==
    (IF check_organization_is_active(organization) = None THEN {MSG_ORG_FIELD} ELSE {})
    \cup (IF check_category_is_active(category, None) = None THEN {MSG_CAT_FIELD}
          ELSE IF ~category_is_scheduled(category) THEN {MSG_CAT_NOT_SCHEDULED}
          ELSE {})
    \cup (IF check_user_exists(user) = None THEN {"User does not exist."} ELSE {})

\* ValidateScheduledAppointmentInput.validate with
\* validate_scheduled_appointment called before the two tests against now().
ValidateScheduledAppointmentInput_hours_first(db, actor, organization_id, category_id, user, scheduled_time) ==
    LET organization == check_organization_is_active(organization_id)
        category == check_category_is_active(category_id, organization)
    IN  IF category = None THEN [code |-> 400, msg |-> MSG_CAT]
        ELSE IF validate_scheduled_appointment(db, category, scheduled_time) # ""
             THEN [code |-> 400,
                   msg |-> validate_scheduled_appointment(db, category, scheduled_time)]
        ELSE IF scheduled_time < now THEN [code |-> 400, msg |-> MSG_PAST]
        ELSE IF scheduled_time > now + max_advance_days(category) * 24 * 60
             THEN [code |-> 400, msg |-> MSG_ADVANCE]
        ELSE IF UnauthorizedForUser(actor, user, category_id)
             THEN [code |-> 403, msg |-> MSG_UNAUTHORIZED]
        ELSE [code |-> 200, msg |-> ""]

\* ValidateScheduledAppointmentInput.validate; result: [code, msg], code 200
\* for valid data.
ValidateScheduledAppointmentInput(db, actor, organization_id, category_id, user, scheduled_time) ==
    LET organization == check_organization_is_active(organization_id)
        category == check_category_is_active(category_id, organization)
    IN  IF category = None THEN [code |-> 400, msg |-> MSG_CAT]
        ELSE IF scheduled_time < now THEN [code |-> 400, msg |-> MSG_PAST]
        ELSE IF scheduled_time > now + max_advance_days(category) * 24 * 60
             THEN [code |-> 400, msg |-> MSG_ADVANCE]
        ELSE IF UnauthorizedForUser(actor, user, category_id)
             THEN [code |-> 403, msg |-> MSG_UNAUTHORIZED]
        ELSE IF validate_scheduled_appointment(db, category, scheduled_time) # ""
             THEN [code |-> 400,
                   msg |-> validate_scheduled_appointment(db, category, scheduled_time)]
        ELSE [code |-> 200, msg |-> ""]

\* ------------------------------------------------- main/appointments/views.py
\* A new row; counter None stands for the default of the column.
NewAppointment(user, organization, category, counter, is_scheduled, scheduled_time) ==
    [user |-> user, organization |-> organization, category |-> category,
     status |-> "active",
     counter |-> IF counter = None THEN 1 ELSE counter,
     is_scheduled |-> is_scheduled,
     scheduled_time |-> scheduled_time,
     scheduled_end_time |-> IF scheduled_time = None THEN None
                            ELSE scheduled_time + time_interval_per_appointment(category)]

\* POST unschedule
unschedule(db, actor, organization, category, user) ==
    LET fieldErrors == ValidateAppointmentInputFields(organization, category, user)
        r == handle_appointment_scheduling(db, organization, category, user)
    IN  IF fieldErrors # {} THEN Resp(400, fieldErrors, db)
        ELSE IF UnauthorizedForUser(actor, user, category)
        THEN Resp(403, {MSG_UNAUTHORIZED}, db)
        ELSE IF r.msg # "" THEN Resp(400, {r.msg}, db)
        ELSE Resp(201, {},
                  Append(db, NewAppointment(user, organization, category,
                                            r.counter, FALSE, None)))

\* The body shared by check_in and cancel.
SetStatus(db, status, check_creator, actor, pk) ==
    LET verdict == BaseAppointmentIDValidatorSerializer(db, actor, pk, check_creator)
        r == set_appointment_status_and_update_counter(db, pk, status)
    IN  IF verdict # "ok" THEN Rejection(db, verdict)
        ELSE IF ~r.ok THEN Resp(400, {r.msg}, db)
        ELSE Resp(200, {}, r.db)

\* check_in with check_creator in the context of the serializer, as cancel
\* has it.
check_in_creator_honoured(db, actor, pk) == SetStatus(db, "checkin", TRUE, actor, pk)

\* POST {pk}/check-in
check_in(db, actor, pk) == SetStatus(db, "checkin", FALSE, actor, pk)

\* POST {pk}/cancel
cancel(db, actor, pk) == SetStatus(db, "cancel", TRUE, actor, pk)

\* POST {pk}/activate
activate(db, actor, pk) ==
    LET verdict == BaseAppointmentIDValidatorSerializer(db, actor, pk, FALSE)
        r == activate_appointment(db, pk)
    IN  IF verdict # "ok" THEN Rejection(db, verdict)
        ELSE IF get_appointment_by_id(db, pk, "any") = None
        THEN Resp(500, {MSG_UNHANDLED}, db)   \* appointment is None: AttributeError
        ELSE IF ~r.ok THEN Resp(400, {r.msg}, db)
        ELSE Resp(200, {}, r.db)

\* POST {pk}/move
move(db, actor, pk, previous_appointment_id) ==
    LET verdict == MoveAppointmentIDValidatorSerializer(
                       db, actor, pk, previous_appointment_id)
    IN  IF verdict # "ok" THEN Rejection(db, verdict)
        ELSE IF get_appointment_by_id(db, pk, "active") = None
        THEN Resp(500, {MSG_UNHANDLED}, db)   \* current_appointment is None, rolled back
        ELSE Resp(200, {}, move_appointment(db, pk, previous_appointment_id))

\* POST schedule
schedule(db, actor, organization, category, user, scheduled_time) ==
    LET fieldErrors == ValidateScheduledAppointmentInputFields(organization, category, user)
        v == ValidateScheduledAppointmentInput(db, actor, organization, category,
                                               user, scheduled_time)
    IN  IF fieldErrors # {} THEN Resp(400, fieldErrors, db)
        ELSE IF v.code # 200 THEN Resp(v.code, {v.msg}, db)
        ELSE Resp(201, {},
                  Append(db, NewAppointment(user, organization, category,
                                            None, TRUE, scheduled_time)))

\* --------------------------------------------------------- requests modelled
\* Ids a request may name; 3 is the id of no organization and no category,
\* and an appointment id above the number of rows is the id of no row.
OrganizationIds == {1, 2, 3}
CategoryIds == {1, 2, 3}
AppointmentIds == 1..MaxAppts
\* The (organization, category) pairs the requests of Next name: the queue,
\* a category of another organization, a category that is not active, no
\* organization, no category.
RequestPlaces == {<<1, 1>>, <<2, 1>>, <<2, 2>>, <<3, 1>>, <<1, 3>>}
\* The users and times the scheduling requests of Next name: 0 is in the
\* past, 2 is the start of a slot.
ScheduleUsers == {1}
ScheduleTimes == {0, 2}
\* The organization whose status is edited.
EditedOrganizations == {1}

\* ------------------------------------------------------------------- Init
NotCalled == [called |-> FALSE, raised |-> FALSE, slots |-> <<>>]

\* The workers that serve requests at once.
Procs == {1, 2}
\* A worker's record: the request (op, id, previous, user, time), the statement
\* the handler is at (pc), the rows it holds in memory (mem for the
\* appointment, prev for previous_appointment, each a list of none or one),
\* the rows its open transaction has written (writes), and the status code
\* of its response with the statement an exception was raised at (code, at).
Request(op, id, previous, user) ==
    [op |-> op, id |-> id, previous |-> previous, user |-> user, time |-> None,
     pc |-> "start", mem |-> <<>>, prev |-> <<>>, writes |-> <<>>,
     code |-> 0, at |-> ""]
NoRequests == [start |-> <<>>, req |-> [p \in Procs |-> Request("none", None, None, None)]]

\* The record of a call of validate_scheduled_appointment: the statement it
\* is at (pc), time_interval_per_appointment in seconds (duration), the
\* time asked for, the usable blocks the outer loop of step 3 has still to
\* tile, current_time of the while loop, and the number of slots appended
\* so far, counted up to MaxTiled.
TilingCall(pc, duration, scheduled_time) ==
    [pc |-> pc, duration |-> duration, scheduled_time |-> scheduled_time,
     blocks |-> <<>>, current_time |-> 0, appended |-> 0]
NotTiling == TilingCall("idle", 0, 0)

Init ==
    /\ appts = <<>>
    /\ orgStatus = [o \in Organizations |-> "active"]
    /\ catStatus = [c \in Categories |-> IF c = 2 THEN "inactive" ELSE "active"]
    /\ hours = [c \in Categories |-> CategoryHours]
    /\ slots = NotCalled
    /\ inflight = NoRequests
    /\ tiling = NotTiling

\* ---------------------------------------------------------------- actions
\* A handler's step: the table becomes the one the handler leaves.
Install(r) ==
    /\ Len(r.db) <= MaxAppts
    /\ WithinBounds(r.db)
    /\ appts' = r.db
    /\ UNCHANGED <<orgStatus, catStatus, hours, slots, inflight, tiling>>

Unschedule(actor, organization, category, user) ==
    Install(unschedule(appts, actor, organization, category, user))

CheckIn(actor, pk) == Install(check_in(appts, actor, pk))

Cancel(actor, pk) == Install(cancel(appts, actor, pk))

Activate(actor, pk) == Install(activate(appts, actor, pk))

Move(actor, pk, previous) == Install(move(appts, actor, pk, previous))

Schedule(actor, organization, category, user, scheduled_time) ==
    Install(schedule(appts, actor, organization, category, user, scheduled_time))

\* Edits of Organization.status.
SetOrganizationStatus(organization, status) ==
    /\ orgStatus[organization] # status
    /\ orgStatus' = [orgStatus EXCEPT ![organization] = status]
    /\ UNCHANGED <<appts, catStatus, hours, slots, inflight, tiling>>

Next ==
    \/ \E actor \in Users, place \in RequestPlaces, u \in Users :
          Unschedule(actor, place[1], place[2], u)
    \/ \E actor \in Users, pk \in AppointmentIds : CheckIn(actor, pk)
    \/ \E actor \in Users, pk \in AppointmentIds : Cancel(actor, pk)
    \/ \E actor \in Users, pk \in AppointmentIds,
          previous \in AppointmentIds \cup {None} : Move(actor, pk, previous)
    \/ \E actor \in Users, pk \in AppointmentIds : Activate(actor, pk)
    \/ \E actor \in Users, place \in RequestPlaces, u \in ScheduleUsers,
          t \in ScheduleTimes : Schedule(actor, place[1], place[2], u, t)
    \/ \E o \in EditedOrganizations, s \in {"active", "inactive"} :
          SetOrganizationStatus(o, s)

Spec == Init /\ [][Next]_vars

\* ------------------------------------------- the hours functions on any input
\* The longest list of opening ranges, the longest list of break ranges and
\* the largest number of bookings the second specification covers.
MaxOpenings == 2
MaxBreaks == 2
MaxBookings == 2

\* The times of day the ranges are written with: 09:00, 09:30, 10:00, 10:30.
Clocks == {<<9, 0>>, <<9, 30>>, <<10, 0>>, <<10, 30>>}
\* Opening ranges, the empty range start = end included, and break ranges.
OpeningRanges == {r \in Clocks \X Clocks : str_to_time(r[1]) <= str_to_time(r[2])}
BreakRanges == {r \in Clocks \X Clocks : str_to_time(r[1]) < str_to_time(r[2])}
OpeningLists == UNION {[1..n -> OpeningRanges] : n \in 0..MaxOpenings}
BreakLists == UNION {[1..n -> BreakRanges] : n \in 0..MaxBreaks}
\* time_interval_per_appointment in minutes.
Intervals == {30, 45}
\* The instants asked for: every quarter of an hour from 08:30 to 11:00.
Instants == {510 + 15 * k : k \in 0..10}
\* The category whose hours are the input, its organization, and the user
\* who books for themself.
HoursCategory == 1
Booker == 1
\* The staff user who checks bookings in.
Desk == 3

SlotInit ==
    /\ appts = <<>>
    /\ orgStatus = [o \in Organizations |-> "active"]
    /\ catStatus = [c \in Categories |-> IF c = 2 THEN "inactive" ELSE "active"]
    /\ \E opening \in OpeningLists, breaks \in BreakLists, interval \in Intervals :
           hours = [c \in Categories |->
                       IF c = HoursCategory
                       THEN [opening |-> opening, breaks |-> breaks, interval |-> interval]
                       ELSE CategoryHours]
    /\ slots = NotCalled
    /\ inflight = NoRequests
    /\ tiling = NotTiling

\* A call of generate_time_slots with the hours of the category.
GenerateSlots ==
    /\ slots' = [called |-> TRUE] @@
                 generate_time_slots(opening_hours(HoursCategory),
                                     break_hours(HoursCategory),
                                     time_interval_per_appointment(HoursCategory))
    /\ UNCHANGED <<appts, orgStatus, catStatus, hours, inflight, tiling>>

\* POST schedule for the category, while the table has room.
Book(scheduled_time) ==
    /\ Len(appts) < MaxBookings
    /\ Schedule(Booker, category_organization(HoursCategory), HoursCategory,
                Booker, scheduled_time)

SlotNext ==
    \/ GenerateSlots
    \/ \E t \in Instants : Book(t)
    \/ \E pk \in 1..MaxBookings : Cancel(Booker, pk)
    \/ \E pk \in 1..MaxBookings : CheckIn(Desk, pk)

SlotSpec == SlotInit /\ [][SlotNext]_vars

\* ------------------------------------------------- vocabulary of the claims
\* The counters of the queue of (organization, category) are 1..N, each once.
Contiguous(db, organization, category) ==
    LET P == Partition(db, organization, category)
    IN  /\ \A i, j \in P : i # j => db[i].counter # db[j].counter
        /\ {db[i].counter : i \in P} = 1..Cardinality(P)

\* Row i of db is in the counter queue it names.
InQueue(db, i) == db[i].status = "active" /\ ~db[i].is_scheduled

\* Rows i and j of db name the same (organization, category).
SamePlace(db, i, j) ==
    db[i].organization = db[j].organization /\ db[i].category = db[j].category

\* No row of the table is a scheduled one: no Schedule request was accepted.
NoScheduled == \A i \in Ids(appts) : ~appts[i].is_scheduled

\* The Move requests the claims speak of: current in its queue, previous
\* null or another row of the same queue.
MoveCase(db, current, previous) ==
    /\ current \in Ids(db)
    /\ InQueue(db, current)
    /\ \/ previous = None
       \/ /\ previous \in Ids(db)
          /\ previous # current
          /\ InQueue(db, previous)
          /\ SamePlace(db, current, previous)

\* ----------------------------------------------------------------- C1
\* C1: after any sequence of accepted Create(unscheduled), Cancel, Check-in,
\* Move and Activate requests, started from the empty table, the counters of
\* the active unscheduled rows of every (organization, category) are exactly
\* 1..N, with no gap and no duplicate.
C1_CounterContiguity ==
    NoScheduled =>
        \A o \in Organizations, c \in Categories : Contiguous(appts, o, c)

\* Two rows of one queue carry the same counter and no Schedule request was
\* accepted.
C1_Witness ==
    /\ NoScheduled
    /\ \E i, j \in Ids(appts) :
           /\ i # j
           /\ InQueue(appts, i) /\ InQueue(appts, j)
           /\ SamePlace(appts, i, j)
           /\ appts[i].counter = appts[j].counter

\* ----------------------------------------------------------------- C2
\* C2: for every contiguous queue 1..N and every Move(current, previous) with
\* current in the queue and previous null or another row of the queue, the
\* counters of the queue after the Move are exactly 1..N with no duplicate.
C2_MovePostcondition ==
    \A actor \in Users, current \in Ids(appts), previous \in Ids(appts) \cup {None} :
        LET r == move(appts, actor, current, previous)
            o == appts[current].organization
            c == appts[current].category
        IN  (/\ MoveCase(appts, current, previous)
             /\ Contiguous(appts, o, c)
             /\ r.code = 200)
            => /\ Contiguous(r.db, o, c)
               /\ Partition(r.db, o, c) = Partition(appts, o, c)

\* A contiguous queue of three rows whose first row a Move to the front is
\* accepted for, and the queue the Move leaves is not contiguous.
C2_Witness ==
    \E current \in Ids(appts) :
        LET o == appts[current].organization
            c == appts[current].category
        IN  /\ MoveCase(appts, current, None)
            /\ Contiguous(appts, o, c)
            /\ Cardinality(Partition(appts, o, c)) = 3
            /\ appts[current].counter = 1
            /\ move(appts, 3, current, None).code = 200
            /\ ~Contiguous(move(appts, 3, current, None).db, o, c)

\* ----------------------------------------------------------------- C3
\* C3: Move(current, previous = null) on a contiguous queue, current at any
\* counter k of 1..N, leaves current with counter 1, every row that had a
\* counter below k one higher, and every row with a counter above k as it was.
C3_MoveToFront ==
    \A actor \in Users, current \in Ids(appts) :
        LET r == move(appts, actor, current, None)
            o == appts[current].organization
            c == appts[current].category
            k == appts[current].counter
        IN  (/\ MoveCase(appts, current, None)
             /\ Contiguous(appts, o, c)
             /\ r.code = 200)
            => /\ r.db[current].counter = 1
               /\ \A i \in Partition(appts, o, c) \ {current} :
                      r.db[i].counter = IF appts[i].counter < k
                                        THEN appts[i].counter + 1
                                        ELSE appts[i].counter

\* The first row of a contiguous queue of two is moved to the front by a
\* member of the category's group and comes out with counter 2.
C3_Witness ==
    \E current \in Ids(appts) :
        /\ MoveCase(appts, current, None)
        /\ Contiguous(appts, appts[current].organization, appts[current].category)
        /\ Cardinality(Partition(appts, appts[current].organization,
                                  appts[current].category)) = 2
        /\ appts[current].counter = 1
        /\ move(appts, 2, current, None).code = 200
        /\ move(appts, 2, current, None).db[current].counter = 2

C5_MoveNoOp ==
    \A actor \in Users, current \in Ids(appts), previous \in Ids(appts) :
        LET r == move(appts, actor, current, previous)
        IN  (/\ MoveCase(appts, current, previous)
             /\ appts[previous].counter = appts[current].counter - 1
             /\ r.code = 200)
            => r.db = appts

\* A queue of three rows, the one moved in the middle of it behind the row
\* that precedes it.
C5_Witness ==
    \E current, previous, last \in Ids(appts) :
        /\ \A i \in {current, previous, last} :
               InQueue(appts, i) /\ SamePlace(appts, i, current)
        /\ appts[previous].counter = appts[current].counter - 1
        /\ appts[last].counter = appts[current].counter + 1
        /\ move(appts, 3, current, previous).code = 200

\* ----------------------------------------------------------------- C6
\* C6: a successful unscheduled Create gives the new row the counter
\* max(counter) + 1 over the active unscheduled rows of its (organization,
\* category), or 1 when there is none, and changes no existing row; scheduled
\* and non-active rows do not count towards the maximum.
C6_Append ==
    \A actor \in Users, o \in OrganizationIds, c \in CategoryIds, u \in Users :
        LET r == unschedule(appts, actor, o, c, u)
            queue == {i \in Ids(appts) : /\ appts[i].organization = o
                                         /\ appts[i].category = c
                                         /\ InQueue(appts, i)}
            new == Len(appts) + 1
        IN  r.code = 201
            => /\ Len(r.db) = new
               /\ \A i \in Ids(appts) : r.db[i] = appts[i]
               /\ r.db[new].counter =
                      IF queue = {} THEN 1
                      ELSE Max({appts[i].counter : i \in queue}) + 1
               /\ r.db[new].status = "active"
               /\ r.db[new].is_scheduled = FALSE
               /\ r.db[new].user = u
               /\ r.db[new].organization = o
               /\ r.db[new].category = c

\* The row created last was appended behind one active unscheduled row while
\* the table held an active scheduled row of the same category.
C6_Witness ==
    /\ Len(appts) = 3
    /\ \E s, a \in 1..2 :
           /\ appts[s].is_scheduled /\ appts[s].status = "active"
           /\ InQueue(appts, a) /\ appts[a].counter = 1
           /\ SamePlace(appts, s, 3) /\ SamePlace(appts, a, 3)
    /\ InQueue(appts, 3)
    /\ appts[3].counter = 2

\* ----------------------------------------------------------------- C7
\* C7: when an active unscheduled row with counter c is cancelled or checked
\* in, every other active unscheduled row of its (organization, category)
\* with a counter above c has its counter decremented by exactly 1 and every
\* one with a counter below c is unchanged, so that a contiguous queue 1..N
\* becomes the contiguous queue 1..N-1.
C7_RenumberOnRemoval ==
    \A actor \in Users, pk \in Ids(appts), status \in {"cancel", "checkin"} :
        LET r == IF status = "cancel" THEN cancel(appts, actor, pk)
                 ELSE check_in(appts, actor, pk)
            o == appts[pk].organization
            c == appts[pk].category
            rest == Partition(appts, o, c) \ {pk}
        IN  (InQueue(appts, pk) /\ r.code = 200)
            => /\ r.db[pk] = [appts[pk] EXCEPT !.status = status]
               /\ \A i \in rest :
                      r.db[i] = IF appts[i].counter > appts[pk].counter
                                THEN [appts[i] EXCEPT !.counter = @ - 1]
                                ELSE appts[i]
               /\ \A i \in Ids(appts) \ (rest \cup {pk}) : r.db[i] = appts[i]
               /\ Contiguous(appts, o, c)
                      => /\ Contiguous(r.db, o, c)
                         /\ Partition(r.db, o, c) = rest

\* A row that was first of a queue of three is cancelled or checked in and
\* the two rows behind it stand at 1 and 2.
C7_Witness ==
    /\ Len(appts) = 3
    /\ appts[1].status \in {"cancel", "checkin"}
    /\ ~appts[1].is_scheduled
    /\ InQueue(appts, 2) /\ appts[2].counter = 1
    /\ InQueue(appts, 3) /\ appts[3].counter = 2
    /\ SamePlace(appts, 1, 2) /\ SamePlace(appts, 1, 3)

\* ----------------------------------------------------------------- C8
\* C8: Cancel or Check-in of a row that is already non-active (cancel,
\* checkin, inactive) or that is scheduled changes the counter of no active
\* unscheduled row.
C8_NoRenumberOutsideQueue ==
    \A actor \in Users, pk \in Ids(appts), status \in {"cancel", "checkin"} :
        LET r == IF status = "cancel" THEN cancel(appts, actor, pk)
                 ELSE check_in(appts, actor, pk)
        IN  (~InQueue(appts, pk) /\ r.code = 200)
            => \A i \in Ids(appts) :
                   InQueue(appts, i) => r.db[i].counter = appts[i].counter

\* A row that is already cancelled is cancelled again by its user, and the
\* request is accepted and lowers the counter of an active unscheduled row.
C8_Witness ==
    \E pk, i \in Ids(appts) :
        /\ appts[pk].status = "cancel"
        /\ ~appts[pk].is_scheduled
        /\ InQueue(appts, i)
        /\ cancel(appts, appts[pk].user, pk).code = 200
        /\ cancel(appts, appts[pk].user, pk).db[i].counter = appts[i].counter - 1

\* ----------------------------------------------------------------- C9
\* The three conditions of the rejection, read off the tables.
OrganizationRejected(o) == o \notin Organizations \/ orgStatus[o] # "active"

CategoryRejected(o, c) ==
    \/ c \notin Categories
    \/ catStatus[c] # "active"
    \/ category_organization(c) # o

DuplicateRejected(db, o, c, u) ==
    \E i \in Ids(db) : /\ db[i].user = u
                       /\ db[i].organization = o
                       /\ db[i].category = c
                       /\ db[i].status = "active"

\* C9: an unscheduled Create is rejected, with no counter assigned and no
\* row created or changed, when the organization is missing or not active,
\* else when the category is missing, not active or not of that
\* organization, else when an active appointment exists for the same (user,
\* organization, category); the conditions are tested in that order and each
\* gives its own message.
C9_CreateRejection ==
    \A actor \in Users, o \in OrganizationIds, c \in CategoryIds, u \in Users :
        LET h == handle_appointment_scheduling(appts, o, c, u)
            r == unschedule(appts, actor, o, c, u)
            rejected == \/ OrganizationRejected(o)
                        \/ CategoryRejected(o, c)
                        \/ DuplicateRejected(appts, o, c, u)
        IN  /\ h.msg = IF OrganizationRejected(o) THEN MSG_ORG
                       ELSE IF CategoryRejected(o, c) THEN MSG_CAT
                       ELSE IF DuplicateRejected(appts, o, c, u) THEN MSG_DUP
                       ELSE ""
            /\ rejected => h.counter = None
            /\ rejected => r.code \in {400, 403} /\ r.db = appts
            /\ r.code # 201 => r.db = appts
            /\ Cardinality({MSG_ORG, MSG_CAT, MSG_DUP, ""}) = 4

\* The organization of the queue is not active while a user holds an active
\* appointment in it: a Create of that user for the queue meets the first
\* and the third condition and is rejected.
C9_Witness ==
    /\ orgStatus[1] # "active"
    /\ \E i \in Ids(appts) :
           /\ appts[i].status = "active"
           /\ appts[i].organization = 1
           /\ DuplicateRejected(appts, 1, 1, appts[i].user)
           /\ unschedule(appts, appts[i].user, 1, 1, appts[i].user).code = 400

\* ---------------------------------------------------------------- C10
\* C10: Activate is legal only for a row that is not active and not
\* scheduled; when the row is already active, is scheduled, or the
\* organization/category-active or duplicate check fails, Activate returns
\* (False, message) and leaves the row's status and counter and every other
\* row unchanged.
C10_ActivateLegality ==
    \A actor \in Users, pk \in Ids(appts) :
        LET a == activate_appointment(appts, pk)
            r == activate(appts, actor, pk)
            row == appts[pk]
            illegal == \/ row.status = "active"
                       \/ row.is_scheduled
                       \/ OrganizationRejected(row.organization)
                       \/ CategoryRejected(row.organization, row.category)
                       \/ DuplicateRejected(appts, row.organization,
                                            row.category, row.user)
        IN  /\ illegal => ~a.ok /\ a.msg # "" /\ a.db = appts
            /\ illegal => r.code # 200 /\ r.db = appts
            /\ a.ok => row.status # "active" /\ ~row.is_scheduled
            /\ r.code # 200 => r.db = appts

\* A table with a scheduled row that was cancelled or checked in, and a
\* cancelled unscheduled row whose user holds an active appointment again.
C10_Witness ==
    /\ \E s \in Ids(appts) : appts[s].is_scheduled /\ appts[s].status # "active"
    /\ \E i, j \in Ids(appts) :
           /\ ~appts[i].is_scheduled /\ appts[i].status # "active"
           /\ appts[j].status = "active"
           /\ appts[j].user = appts[i].user
           /\ SamePlace(appts, i, j)
           /\ activate(appts, 3, i).code = 400

\* ---------------------------------------------------------------- C11
\* C11: a successful Activate puts the row at the back of the queue: its
\* status becomes active and its counter max + 1 over the active unscheduled
\* rows of its (organization, category) at that moment (1 if none), whatever
\* counter it carried while it was not active, and no other row changes.
C11_ActivateToBack ==
    \A actor \in Users, pk \in Ids(appts) :
        LET r == activate(appts, actor, pk)
            queue == {i \in Ids(appts) : /\ SamePlace(appts, i, pk)
                                         /\ InQueue(appts, i)}
            back == IF queue = {} THEN 1
                    ELSE Max({appts[i].counter : i \in queue}) + 1
        IN  r.code = 200
            => /\ r.db = [appts EXCEPT ![pk].status = "active",
                                       ![pk].counter = back]
               /\ appts[pk].status # "active"
               /\ pk \notin queue

\* A row that is not active and carries counter 1 while two rows stand in
\* its queue: activated by its own category's group member it gets 3.
C11_Witness ==
    \E pk \in Ids(appts) :
        /\ appts[pk].status \in {"cancel", "checkin"}
        /\ appts[pk].counter = 1
        /\ Cardinality(Partition(appts, appts[pk].organization,
                                 appts[pk].category)) = 2
        /\ activate(appts, 2, pk).code = 200
        /\ activate(appts, 2, pk).db[pk].counter = 3

\* ---------------------------------------------------------------- C12
\* The Move requests C12 speaks of: previous equals current, or an id the
\* request names is the id of no row.
MoveInvalid(db, current, previous) ==
    \/ previous = current
    \/ current \notin Ids(db)
    \/ previous # None /\ previous \notin Ids(db)

\* The actor is not refused access to the current row (the refusal, a 403,
\* comes before the tests of the ids).
MoveAdmitted(db, actor, current) ==
    current \in Ids(db)
        => BaseAppointmentIDValidatorSerializer(db, actor, current, FALSE) = "ok"

\* C12: for every actor, staff included, a Move whose previous id equals the
\* current id, or that names an appointment id of no row, is rejected with a
\* validation error and changes no row.
C12_MoveRejection ==
    \A actor \in Users, current \in AppointmentIds,
       previous \in AppointmentIds \cup {None} :
        (MoveInvalid(appts, current, previous) /\ MoveAdmitted(appts, actor, current))
        => /\ MoveAppointmentIDValidatorSerializer(appts, actor, current, previous)
                  \in {"notfound", "same", "prevnotfound"}
           /\ move(appts, actor, current, previous).code = 400
           /\ move(appts, actor, current, previous).db = appts

\* The table holds two rows and a staff user asks to move the row of id 3
\* behind row 1: the serializer accepts the request.
C12_Witness ==
    /\ Len(appts) = 2
    /\ InQueue(appts, 1)
    /\ is_staff(3)
    /\ MoveAppointmentIDValidatorSerializer(appts, 3, 3, 1) = "ok"
    /\ get_appointment_by_id(appts, 3, "active") = None

\* ---------------------------------------------------------------- C13
\* The actor is not staff, not the user of row pk and not a member of the
\* group of the row's category.
Stranger(db, actor, pk) ==
    /\ ~is_staff(actor)
    /\ db[pk].user # actor
    /\ db[pk].category \notin get_authorized_categories_for_user(actor)

\* C13: Check-in, Cancel, Activate and Move requested by an actor who is not
\* staff, not the appointment's own user and not a member of the group of
\* its category fail with the authorization error (403), which is not the
\* validation error (400), and leave every row as it was.
C13_Unauthorized ==
    \A actor \in Users, pk \in Ids(appts), previous \in AppointmentIds \cup {None} :
        Stranger(appts, actor, pk)
        => \A r \in {check_in(appts, actor, pk), cancel(appts, actor, pk),
                     activate(appts, actor, pk), move(appts, actor, pk, previous)} :
               /\ r.code = 403
               /\ r.errors = {MSG_UNAUTHORIZED}
               /\ r.db = appts

\* Two rows stand in the queue, neither of them of user 1, who is not staff
\* and in no group: each of the user's four requests on the second row is
\* answered 403.
C13_Witness ==
    /\ Len(appts) = 2
    /\ InQueue(appts, 1) /\ InQueue(appts, 2)
    /\ Stranger(appts, 1, 1) /\ Stranger(appts, 1, 2)
    /\ cancel(appts, 1, 2).code = 403
    /\ move(appts, 1, 2, None).code = 403

\* ---------------------------------------------------------------- C14
\* The actor is the user of row pk and neither staff nor a member of the
\* group of the row's category.
CreatorOnly(db, actor, pk) ==
    /\ db[pk].user = actor
    /\ ~is_staff(actor)
    /\ db[pk].category \notin get_authorized_categories_for_user(actor)

\* C14 as stated: both Check-in and Cancel are permitted when the actor is
\* the appointment's own user, also when the actor is neither staff nor a
\* member of the category's group.
C14_CreatorPermitted ==
    \A actor \in Users, pk \in Ids(appts) :
        CreatorOnly(appts, actor, pk)
        => /\ cancel(appts, actor, pk).code = 200
           /\ check_in(appts, actor, pk).code = 200

\* C14, amended: for an actor who is the appointment's own user and neither
\* staff nor a member of the category's group, Cancel is permitted (200, the
\* row's status becomes cancel) and Check-in is refused with the
\* authorization error (403) and changes no row.
C14_CreatorCancelOnly ==
    \A actor \in Users, pk \in Ids(appts) :
        CreatorOnly(appts, actor, pk)
        => /\ cancel(appts, actor, pk).code = 200
           /\ cancel(appts, actor, pk).db[pk].status = "cancel"
           /\ check_in(appts, actor, pk).code = 403
           /\ check_in(appts, actor, pk).db = appts

\* User 1, who is not staff and in no group, holds an active unscheduled
\* appointment behind another user's: the user's Cancel is answered 200 and
\* the user's Check-in 403.
C14_Witness ==
    \E pk \in Ids(appts) :
        /\ CreatorOnly(appts, 1, pk)
        /\ InQueue(appts, pk)
        /\ appts[pk].counter = 2
        /\ cancel(appts, 1, pk).code = 200
        /\ check_in(appts, 1, pk).code = 403

\* ------------------------------------ adjust_appointment_counter on any table
\* The longest table the third specification starts from.
MaxAdjustRows == 2

\* The rows of those tables: of either organization and category, active or
\* cancelled, in the queue or booked for a time.
AdjustRows ==
    {[user |-> 1, organization |-> o, category |-> c, status |-> st, counter |-> n,
      is_scheduled |-> sch,
      scheduled_time |-> IF sch THEN 2 ELSE None,
      scheduled_end_time |-> IF sch THEN 4 ELSE None] :
        o \in Organizations, c \in Categories, st \in {"active", "cancel"},
        n \in 1..MaxCounter, sch \in BOOLEAN}
AdjustTables == UNION {[1..n -> AdjustRows] : n \in 1..MaxAdjustRows}
\* The arguments of a call: reference_counter, and counter_limit as
\* adjust_appointment_counter takes it.
ReferenceCounters == 0..MaxCounter
CounterLimits == {<<>>} \cup {<<n>> : n \in 1..(MaxCounter + 1)}

AdjustInit ==
    /\ appts \in AdjustTables
    /\ orgStatus = [o \in Organizations |-> "active"]
    /\ catStatus = [c \in Categories |-> IF c = 2 THEN "inactive" ELSE "active"]
    /\ hours = [c \in Categories |-> CategoryHours]
    /\ slots = NotCalled
    /\ inflight = NoRequests
    /\ tiling = NotTiling

\* A call of adjust_appointment_counter for the row appointment_id.
AdjustCounter(appointment_id, increment, reference_counter, counter_limit) ==
    /\ appointment_id \in Ids(appts)
    /\ appts' = adjust_appointment_counter(appts, appts[appointment_id], increment,
                                            reference_counter, counter_limit)
    /\ \A i \in Ids(appts') : appts'[i].counter \in 0..(MaxCounter + 1)
    /\ UNCHANGED <<orgStatus, catStatus, hours, slots, inflight, tiling>>

AdjustNext ==
    \E appointment_id \in 1..MaxAdjustRows, increment \in BOOLEAN,
       reference_counter \in ReferenceCounters, counter_limit \in CounterLimits :
        AdjustCounter(appointment_id, increment, reference_counter, counter_limit)

AdjustSpec == AdjustInit /\ [][AdjustNext]_vars

\* ------------------------------------------------ Move on any table
\* The longest table the Move requests of the fourth specification start on.
MaxMoveRows == 3

\* The rows of those tables: row k is of user k, of (organization 1,
\* category 1) or (organization 2, category 2), active or cancelled, in the
\* queue or booked for a time.  A row of a queue counts from 1 in the order
\* of the ids within its queue; any other row has the default counter.
MoveRowKinds ==
    [place : {1, 2}, status : {"active", "cancel"}, is_scheduled : BOOLEAN]
MoveTable(kinds) ==
    [k \in DOMAIN kinds |->
        [user |-> k,
         organization |-> category_organization(kinds[k].place),
         category |-> kinds[k].place,
         status |-> kinds[k].status,
         counter |-> IF kinds[k].status = "active" /\ ~kinds[k].is_scheduled
                     THEN Cardinality({j \in 1..k :
                                          /\ kinds[j].place = kinds[k].place
                                          /\ kinds[j].status = "active"
                                          /\ ~kinds[j].is_scheduled})
                     ELSE 1,
         is_scheduled |-> kinds[k].is_scheduled,
         scheduled_time |-> IF kinds[k].is_scheduled THEN 2 ELSE None,
         scheduled_end_time |-> IF kinds[k].is_scheduled THEN 4 ELSE None]]
MoveTables ==
    UNION {{MoveTable(kinds) : kinds \in [1..n -> MoveRowKinds]} : n \in 0..MaxMoveRows}

MoveInit ==
    /\ appts \in MoveTables
    /\ orgStatus = [o \in Organizations |-> "active"]
    /\ catStatus = [c \in Categories |-> IF c = 2 THEN "inactive" ELSE "active"]
    /\ hours = [c \in Categories |-> CategoryHours]
    /\ slots = NotCalled
    /\ inflight = NoRequests
    /\ tiling = NotTiling

MoveNext ==
    \E actor \in Users, pk \in 1..MaxMoveRows,
       previous \in (1..MaxMoveRows) \cup {None} : Move(actor, pk, previous)

MoveSpec == MoveInit /\ [][MoveNext]_vars

\* ------------------------------------- the tiling loop, statement by statement
\* The number of appended slots up to which a call counts them; no call of
\* the fifth specification that returns appends as many.
MaxTiled == 4

\* time_interval_per_appointment in seconds: half a minute, 30 minutes, 30
\* minutes and a half, 45 minutes.
Durations == {30, 1800, 1830, 2700}

\* Category.clean for a scheduled category, on the hours of the weekday: no
\* opening range or exactly one with start < end, every break with
\* start < end inside the opening range and not the whole of it, and a
\* positive interval.
CategoryClean(opening, breaks, duration) ==
    /\ \/ opening = <<>>
       \/ /\ Len(opening) = 1
          /\ LET start_time == str_to_time(opening[1][1])
                 end_time == str_to_time(opening[1][2])
             IN  /\ start_time < end_time
                 /\ \A k \in DOMAIN breaks :
                        LET break_start_time == str_to_time(breaks[k][1])
                            break_end_time == str_to_time(breaks[k][2])
                        IN  /\ break_start_time < break_end_time
                            /\ start_time <= break_start_time
                            /\ break_start_time < end_time
                            /\ start_time < break_end_time
                            /\ break_end_time <= end_time
                            /\ ~(break_start_time = start_time
                                   /\ break_end_time = end_time)
    /\ duration > 0

TilingInit ==
    /\ appts = <<>>
    /\ orgStatus = [o \in Organizations |-> "active"]
    /\ catStatus = [c \in Categories |-> IF c = 2 THEN "inactive" ELSE "active"]
    /\ slots = NotCalled
    /\ inflight = NoRequests
    /\ \E opening \in OpeningLists, breaks \in BreakLists, duration \in Durations,
          scheduled_time \in Instants :
           /\ CategoryClean(opening, breaks, duration)
           /\ hours = [c \in Categories |->
                          IF c = HoursCategory
                          THEN [opening |-> opening, breaks |-> breaks,
                                interval |-> duration \div 60]
                          ELSE CategoryHours]
           /\ tiling = TilingCall("start", duration, scheduled_time)

\* interval_minutes = time_interval_per_appointment.total_seconds() // 60
TilingInterval == tiling.duration \div 60

\* validate_scheduled_appointment down to the call of generate_time_slots in
\* validate_time_alignment and its steps 1 and 2: a ValidationError before
\* it ends the call.
ValidateCall ==
    /\ tiling.pc = "start"
    /\ LET opening == opening_hours(HoursCategory)
           breaks == break_hours(HoursCategory)
           break_ranges == [k \in DOMAIN breaks |->
                               <<str_to_time(breaks[k][1]), str_to_time(breaks[k][2])>>]
           usable_blocks == UsableBlocks(str_to_time(opening[1][1]),
                                         SortRanges(break_ranges),
                                         str_to_time(opening[1][2]))
       IN  IF opening = <<>>
              \/ ~is_within_opening_hours(tiling.scheduled_time, opening, breaks)
           THEN tiling' = [tiling EXCEPT !.pc = "returned"]
           ELSE tiling' = [tiling EXCEPT
                              !.pc = "loop",
                              !.blocks = usable_blocks,
                              !.current_time = IF usable_blocks = <<>> THEN 0
                                               ELSE usable_blocks[1][1]]
    /\ UNCHANGED <<appts, orgStatus, catStatus, hours, slots, inflight>>

\* The body of the while loop: a slot is appended and current_time becomes
\* its end.
TilingAppend ==
    /\ tiling.pc = "loop" /\ tiling.blocks # <<>>
    /\ tiling.current_time + TilingInterval <= Head(tiling.blocks)[2]
    /\ tiling' = [tiling EXCEPT
                     !.current_time = tiling.current_time + TilingInterval,
                     !.appended = Min({tiling.appended + 1, MaxTiled})]
    /\ UNCHANGED <<appts, orgStatus, catStatus, hours, slots, inflight>>

\* The condition of the while loop is false: the for loop takes the next
\* block.
TilingNextBlock ==
    /\ tiling.pc = "loop" /\ tiling.blocks # <<>>
    /\ ~(tiling.current_time + TilingInterval <= Head(tiling.blocks)[2])
    /\ tiling' = [tiling EXCEPT
                     !.blocks = Tail(tiling.blocks),
                     !.current_time = IF Tail(tiling.blocks) = <<>>
                                      THEN tiling.current_time
                                      ELSE Tail(tiling.blocks)[1][1]]
    /\ UNCHANGED <<appts, orgStatus, catStatus, hours, slots, inflight>>

\* return slots
TilingReturn ==
    /\ tiling.pc = "loop" /\ tiling.blocks = <<>>
    /\ tiling' = [tiling EXCEPT !.pc = "returned"]
    /\ UNCHANGED <<appts, orgStatus, catStatus, hours, slots, inflight>>

TilingNext ==
    \/ ValidateCall
    \/ TilingAppend
    \/ TilingNextBlock
    \/ TilingReturn

\* The interpreter runs the next statement whenever there is one.
TilingSpec == TilingInit /\ [][TilingNext]_vars /\ WF_vars(TilingNext)

\* ------------------------------------------------- requests served at once
\* Two workers serve one request each on the queue of one category.  Each
\* statement of a handler that reads or writes the table is a step.  A
\* statement outside a transaction is committed as it runs; the statements
\* inside transaction.atomic() write rows no other worker sees, or can
\* write, before the commit, and read the committed table with those rows
\* laid over it.
\* The longest table the two requests start on.
MaxStart == 3
\* The category of the queue; the requests on appointments are sent by Desk.
QueueCategory == 1

\* The tables the requests start on: row k is of user k, active or
\* cancelled; the active rows count 1..N in the order of their ids.
StartTable(st) ==
    [k \in DOMAIN st |->
        [NewAppointment(k, category_organization(QueueCategory), QueueCategory,
                        IF st[k] = "active"
                        THEN Cardinality({j \in 1..k : st[j] = "active"}) ELSE 1,
                        FALSE, None)
         EXCEPT !.status = st[k]]]
StartTables ==
    UNION {{StartTable(st) : st \in [1..n -> {"active", "cancel"}]} : n \in 0..MaxStart}
Requests ==
    {Request("create", None, None, u) : u \in Users}
    \cup {Request(op, id, None, None) :
             op \in {"activate", "cancel", "checkin"}, id \in 1..MaxStart}
    \cup {Request("move", id, previous, None) :
             id \in 1..MaxStart, previous \in (1..MaxStart) \cup {None}}
    \cup {[Request("schedule", None, None, u) EXCEPT !.time = t] :
             u \in Users, t \in ScheduleTimes}

ConcInit ==
    /\ appts \in StartTables
    /\ orgStatus = [o \in Organizations |-> "active"]
    /\ catStatus = [c \in Categories |-> IF c = 2 THEN "inactive" ELSE "active"]
    /\ hours = [c \in Categories |-> CategoryHours]
    /\ slots = NotCalled
    /\ inflight \in {[start |-> appts, req |-> r] : r \in [Procs -> Requests]}
    /\ tiling = NotTiling

Req(p) == inflight.req[p]
Other(p) == CHOOSE q \in Procs : q # p
\* The table with the rows a transaction wrote laid over it.
Apply(table, writes) ==
    [i \in Ids(table) |-> IF i \in DOMAIN writes THEN writes[i] ELSE table[i]]
\* What the statements of worker p read.
View(p) == Apply(appts, Req(p).writes)
\* The rows the open transaction of the other worker has written: a
\* statement of p that writes one of them waits.
LockedRows(p) == DOMAIN Req(Other(p)).writes
\* The rows in which two tables of one length differ.
Touched(db, out) == {i \in Ids(db) : out[i] # db[i]}
\* writes with the rows ids of the table out put in.
PutAll(writes, out, ids) ==
    [i \in DOMAIN writes \cup ids |-> IF i \in ids THEN out[i] ELSE writes[i]]

\* A save outside any transaction: the row is in the table at once.
AutocommitSave(table, writes, id, row) ==
    [table |-> [table EXCEPT ![id] = row], writes |-> writes]
\* A save inside transaction.atomic(): the row is written for the commit.
TxnSave(table, writes, id, row) ==
    [table |-> table, writes |-> PutAll(writes, [i \in {id} |-> row], {id})]
\* A rollback that leaves in the table what the transaction wrote.
RollbackKeepsWrites(table, writes) == Apply(table, writes)
\* The exit of transaction.atomic() on an exception.
Rollback(table, writes) == table

\* The record of a worker whose response is sent.
Done(r, code, at) ==
    [r EXCEPT !.pc = "done", !.code = code, !.at = at, !.writes = <<>>]
\* A step of worker p: its record becomes r and the committed table table.
Step(p, r, table) ==
    /\ appts' = table
    /\ inflight' = [inflight EXCEPT !.req[p] = r]
    /\ UNCHANGED <<orgStatus, catStatus, hours, slots, tiling>>

\* unschedule up to handle_appointment_scheduling: the validation and the
\* counter, read from the table as it is now.
CreateRead(p) ==
    /\ Req(p).op = "create" /\ Req(p).pc = "start"
    /\ LET resp == unschedule(appts, Req(p).user, category_organization(QueueCategory),
                              QueueCategory, Req(p).user)
       IN  IF resp.code # 201 THEN Step(p, Done(Req(p), resp.code, ""), appts)
           ELSE Step(p, [Req(p) EXCEPT !.pc = "save",
                                       !.mem = <<resp.db[Len(resp.db)]>>], appts)

\* serializer.save(is_scheduled=False)
CreateSave(p) ==
    /\ Req(p).op = "create" /\ Req(p).pc = "save"
    /\ Step(p, Done(Req(p), 201, ""), Append(appts, Req(p).mem[1]))

\* schedule up to serializer.is_valid: ValidateScheduledAppointmentInput,
\* is_slot_available included, on the table as it is now.
ScheduleValidate(p) ==
    /\ Req(p).op = "schedule" /\ Req(p).pc = "start"
    /\ LET resp == schedule(appts, Req(p).user, category_organization(QueueCategory),
                            QueueCategory, Req(p).user, Req(p).time)
       IN  IF resp.code # 201 THEN Step(p, Done(Req(p), resp.code, ""), appts)
           ELSE Step(p, [Req(p) EXCEPT !.pc = "save",
                                       !.mem = <<resp.db[Len(resp.db)]>>], appts)

\* serializer.save(is_scheduled=True, status="active")
ScheduleSave(p) ==
    /\ Req(p).op = "schedule" /\ Req(p).pc = "save"
    /\ Step(p, Done(Req(p), 201, ""), Append(appts, Req(p).mem[1]))

\* activate up to the counter handle_appointment_scheduling returns.
ActivateRead(p) ==
    /\ Req(p).op = "activate" /\ Req(p).pc = "start"
    /\ LET resp == activate(appts, Desk, Req(p).id)
       IN  IF resp.code # 200 THEN Step(p, Done(Req(p), resp.code, ""), appts)
           ELSE Step(p, [Req(p) EXCEPT !.pc = "save",
                                       !.mem = <<resp.db[Req(p).id]>>], appts)

\* appointment.save() of activate_appointment: the row as held in memory.
ActivateSave(p) ==
    /\ Req(p).op = "activate" /\ Req(p).pc = "save"
    /\ Req(p).id \notin LockedRows(p)
    /\ Step(p, Done(Req(p), 200, ""), [appts EXCEPT ![Req(p).id] = Req(p).mem[1]])

\* check_in and cancel up to get_appointment_by_id.
StatusGet(p) ==
    /\ Req(p).op \in {"cancel", "checkin"} /\ Req(p).pc = "start"
    /\ IF get_appointment_by_id(appts, Req(p).id, "any") = None
       THEN Step(p, Done(Req(p), 400, ""), appts)
       ELSE Step(p, [Req(p) EXCEPT !.pc = "save", !.mem = <<appts[Req(p).id]>>], appts)

\* appointment.save() of set_appointment_status_and_update_counter.
StatusSave(p) ==
    /\ Req(p).op \in {"cancel", "checkin"} /\ Req(p).pc = "save"
    /\ Req(p).id \notin LockedRows(p)
    /\ LET appointment == [Req(p).mem[1] EXCEPT !.status = Req(p).op]
       IN  Step(p, [Req(p) EXCEPT !.pc = "adjust", !.mem = <<appointment>>],
                [appts EXCEPT ![Req(p).id] = appointment])

\* adjust_appointment_counter(appointment, False, appointment.counter)
StatusAdjust(p) ==
    /\ Req(p).op \in {"cancel", "checkin"} /\ Req(p).pc = "adjust"
    /\ LET out == adjust_appointment_counter(appts, Req(p).mem[1], FALSE,
                                             Req(p).mem[1].counter, <<>>)
       IN  /\ Touched(appts, out) \cap LockedRows(p) = {}
           /\ Step(p, Done(Req(p), 200, ""), out)

\* MoveAppointmentIDValidatorSerializer
MoveValidate(p) ==
    /\ Req(p).op = "move" /\ Req(p).pc = "start"
    /\ LET verdict == MoveAppointmentIDValidatorSerializer(
                          appts, Desk, Req(p).id, Req(p).previous)
       IN  IF verdict # "ok"
           THEN Step(p, Done(Req(p), Rejection(appts, verdict).code, ""), appts)
           ELSE Step(p, [Req(p) EXCEPT !.pc = "get"], appts)

\* The two get_appointment_by_id of move_appointment; no current
\* appointment is an AttributeError at the next line.
MoveGet(p) ==
    /\ Req(p).op = "move" /\ Req(p).pc = "get"
    /\ IF get_appointment_by_id(View(p), Req(p).id, "active") = None
       THEN Step(p, Done(Req(p), 500, "get"), Rollback(appts, Req(p).writes))
       ELSE Step(p, [Req(p) EXCEPT
                        !.pc = "inactive",
                        !.mem = <<View(p)[Req(p).id]>>,
                        !.prev = IF get_appointment_by_id(View(p), Req(p).previous,
                                                          "active") = None
                                 THEN <<>> ELSE <<View(p)[Req(p).previous]>>],
                 appts)

\* current_appointment.status = "inactive"; current_appointment.save()
MoveInactive(p) ==
    /\ Req(p).op = "move" /\ Req(p).pc = "inactive"
    /\ Req(p).id \notin LockedRows(p)
    /\ LET current == [Req(p).mem[1] EXCEPT !.status = "inactive"]
           saved == TxnSave(appts, Req(p).writes, Req(p).id, current)
       IN  Step(p, [Req(p) EXCEPT !.pc = "shift", !.mem = <<current>>,
                                  !.writes = saved.writes],
                saved.table)

\* The table the branch of move_appointment leaves in the view of worker p.
MoveShifted(p) ==
    LET current == Req(p).mem[1]
        first_counter == get_first_counter_for_appointment(
                             View(p), current.organization, current.category)
    IN  IF Req(p).previous = None
        THEN adjust_appointment_counter(View(p), current, TRUE, first_counter,
                                        <<current.counter>>)
        ELSE IF current.counter < Req(p).prev[1].counter
        THEN adjust_appointment_counter(View(p), current, FALSE, current.counter,
                                        <<Req(p).prev[1].counter + 1>>)
        ELSE IF current.counter > Req(p).prev[1].counter
        THEN adjust_appointment_counter(View(p), current, TRUE,
                                        Req(p).prev[1].counter, <<current.counter>>)
        ELSE View(p)

\* The branch of move_appointment; no previous appointment for an id given
\* is an AttributeError at previous_appointment.counter.
MoveShift(p) ==
    /\ Req(p).op = "move" /\ Req(p).pc = "shift"
    /\ IF Req(p).previous # None /\ Req(p).prev = <<>>
       THEN Step(p, Done(Req(p), 500, "shift"), Rollback(appts, Req(p).writes))
       ELSE LET current == Req(p).mem[1]
                out == MoveShifted(p)
                counter ==
                    IF Req(p).previous = None
                    THEN get_first_counter_for_appointment(
                             View(p), current.organization, current.category) + 1
                    ELSE IF current.counter # Req(p).prev[1].counter
                    THEN out[Req(p).previous].counter + 1
                    ELSE current.counter
            IN  /\ Touched(View(p), out) \cap LockedRows(p) = {}
                /\ Step(p, [Req(p) EXCEPT
                                !.pc = "save",
                                !.mem = <<[current EXCEPT !.counter = counter]>>,
                                !.writes = PutAll(Req(p).writes, out,
                                                  Touched(View(p), out))],
                        appts)

\* current_appointment.status = "active"; current_appointment.save()
MoveSave(p) ==
    /\ Req(p).op = "move" /\ Req(p).pc = "save"
    /\ LET current == [Req(p).mem[1] EXCEPT !.status = "active"]
           saved == TxnSave(appts, Req(p).writes, Req(p).id, current)
       IN  Step(p, [Req(p) EXCEPT !.pc = "commit", !.mem = <<current>>,
                                  !.writes = saved.writes],
                saved.table)

\* The exit of transaction.atomic() without an exception.
MoveCommit(p) ==
    /\ Req(p).op = "move" /\ Req(p).pc = "commit"
    /\ Step(p, Done(Req(p), 200, ""), Apply(appts, Req(p).writes))

\* A statement of the transaction that waits for a row the other
\* transaction wrote is given up by the database with an error.
MoveLockError(p) ==
    /\ Req(p).op = "move"
    /\ \/ Req(p).pc = "inactive" /\ Req(p).id \in LockedRows(p)
       \/ /\ Req(p).pc = "shift"
          /\ ~(Req(p).previous # None /\ Req(p).prev = <<>>)
          /\ Touched(View(p), MoveShifted(p)) \cap LockedRows(p) # {}
    /\ Step(p, Done(Req(p), 500, Req(p).pc), Rollback(appts, Req(p).writes))

ConcNext ==
    \E p \in Procs :
        \/ CreateRead(p)
        \/ CreateSave(p)
        \/ ScheduleValidate(p)
        \/ ScheduleSave(p)
        \/ ActivateRead(p)
        \/ ActivateSave(p)
        \/ StatusGet(p)
        \/ StatusSave(p)
        \/ StatusAdjust(p)
        \/ MoveValidate(p)
        \/ MoveGet(p)
        \/ MoveInactive(p)
        \/ MoveShift(p)
        \/ MoveSave(p)
        \/ MoveCommit(p)
        \/ MoveLockError(p)

ConcSpec == ConcInit /\ [][ConcNext]_vars

\* ---------------------------------------------- vocabulary of the slot claims
\* A range written with two times of day, in minutes after midnight.
RangeMinutes(r) == <<r[1][1] * 60 + r[1][2], r[2][1] * 60 + r[2][2]>>
\* The opening range generate_time_slots reads, the breaks and the interval
\* of the call, and the list the call returned.
CallOpening == RangeMinutes(opening_hours(HoursCategory)[1])
CallBreaks == {RangeMinutes(break_hours(HoursCategory)[k]) :
                   k \in DOMAIN break_hours(HoursCategory)}
CallInterval == time_interval_per_appointment(HoursCategory)
Returned == [k \in DOMAIN slots.slots |-> RangeMinutes(slots.slots[k])]
\* generate_time_slots was called and returned a list.
HasReturned == slots.called /\ ~slots.raised

\* C15: every slot generate_time_slots returns is exactly interval minutes
\* long, lies within the opening range and outside every break range, no two
\* slots overlap, and the slots ascend by start time.
C15_SlotTiling ==
    HasReturned =>
        /\ \A k \in DOMAIN Returned :
              /\ Returned[k][2] - Returned[k][1] = CallInterval
              /\ CallOpening[1] <= Returned[k][1]
              /\ Returned[k][2] <= CallOpening[2]
              /\ \A b \in CallBreaks : Returned[k][2] <= b[1] \/ b[2] <= Returned[k][1]
        /\ \A j, k \in DOMAIN Returned :
              j < k => /\ Returned[j][1] < Returned[k][1]
                       /\ Returned[j][2] <= Returned[k][1]

\* The call with opening 09:00-09:30, one break 10:00-10:30 and interval 30
\* has returned.
C15_Witness ==
    /\ HasReturned
    /\ opening_hours(HoursCategory) = << << <<9, 0>>, <<9, 30>> >> >>
    /\ break_hours(HoursCategory) = << << <<10, 0>>, <<10, 30>> >> >>
    /\ CallInterval = 30
    /\ Len(slots.slots) = 2

\* C16: with break ranges none of which intersects the opening range,
\* generate_time_slots returns the list it returns with no breaks.
C16_DisjointBreaksIgnored ==
    (/\ HasReturned
     /\ \A b \in CallBreaks : b[2] <= CallOpening[1] \/ CallOpening[2] <= b[1])
    => slots.slots = generate_time_slots(<<opening_hours(HoursCategory)[1]>>, <<>>,
                                         CallInterval).slots

\* The call with opening 09:00-09:30, one break 10:00-10:30 after closing and
\* interval 45 has returned a slot.
C16_Witness ==
    /\ HasReturned
    /\ opening_hours(HoursCategory) = << << <<9, 0>>, <<9, 30>> >> >>
    /\ break_hours(HoursCategory) = << << <<10, 0>>, <<10, 30>> >> >>
    /\ CallInterval = 45
    /\ slots.slots # <<>>

\* The minutes of the opening range that lie in no break, the starts of the
\* maximal runs of such minutes, and the end of the run that starts at b.
UsableMinutes ==
    {m \in CallOpening[1]..(CallOpening[2] - 1) :
        \A b \in CallBreaks : m < b[1] \/ b[2] <= m}
ReferenceBlockStarts == {m \in UsableMinutes : m - 1 \notin UsableMinutes}
ReferenceBlockEnd(b) == Min({e \in (b + 1)..CallOpening[2] : e \notin UsableMinutes})
\* The slots of the reference tiling.
ReferenceSlots ==
    {<<p[1] + p[2] * CallInterval, p[1] + (p[2] + 1) * CallInterval>> :
        p \in {q \in ReferenceBlockStarts
                        \X (0..((CallOpening[2] - CallOpening[1]) \div CallInterval)) :
                   q[1] + (q[2] + 1) * CallInterval <= ReferenceBlockEnd(q[1])}}

\* C17: generate_time_slots returns the reference tiling: the slots
\* [b + k*interval, b + (k+1)*interval] that fit in each maximal sub-interval
\* of the opening range left by the breaks, b its start, block by block in
\* ascending order.
C17_ReferenceTiling ==
    HasReturned =>
        /\ {Returned[k] : k \in DOMAIN Returned} = ReferenceSlots
        /\ Len(Returned) = Cardinality(ReferenceSlots)
        /\ \A j, k \in DOMAIN Returned : j < k => Returned[j][1] < Returned[k][1]

\* The call with opening 09:00-09:30, the break 10:00-10:30 given twice and
\* interval 30 has returned.
C17_Witness ==
    /\ HasReturned
    /\ opening_hours(HoursCategory) = << << <<9, 0>>, <<9, 30>> >> >>
    /\ break_hours(HoursCategory) = << << <<10, 0>>, <<10, 30>> >>,
                                       << <<10, 0>>, <<10, 30>> >> >>
    /\ CallInterval = 30
    /\ Len(slots.slots) = 2

\* C18: generate_time_slots returns the empty list, and does not raise, when
\* the opening range is empty and when a break covers the opening range.
C18_EmptyOutput ==
    (/\ slots.called
     /\ opening_hours(HoursCategory) # <<>>
     /\ \/ CallOpening[1] = CallOpening[2]
        \/ \E b \in CallBreaks : b[1] <= CallOpening[1] /\ CallOpening[2] <= b[2])
    => ~slots.raised /\ slots.slots = <<>>

\* The call with the empty opening range 09:00-09:00, one break 09:30-10:00
\* and interval 30 has returned.
C18_Witness ==
    /\ HasReturned
    /\ opening_hours(HoursCategory) = << << <<9, 0>>, <<9, 0>> >> >>
    /\ break_hours(HoursCategory) = << << <<9, 30>>, <<10, 0>> >> >>
    /\ CallInterval = 30
    /\ Len(slots.slots) = 1

\* --------------------------------------------- vocabulary of the hours claims
\* start <= t < end for one of the ranges of the list.
InSomeRange(t, ranges) ==
    \E k \in DOMAIN ranges :
        RangeMinutes(ranges[k])[1] <= t /\ t < RangeMinutes(ranges[k])[2]
\* t is the start of a slot of the category.
IsSlotStart(t) ==
    \E slot \in {RangeMinutes(generate_time_slots(
                                  opening_hours(HoursCategory), break_hours(HoursCategory),
                                  CallInterval).slots[k]) :
                     k \in DOMAIN generate_time_slots(
                                      opening_hours(HoursCategory),
                                      break_hours(HoursCategory), CallInterval).slots} :
        slot[1] = t
\* An active booking of the category overlaps the CallInterval minutes from t.
Overlapped(db, t) ==
    \E i \in Ids(db) :
        /\ db[i].category = HoursCategory
        /\ db[i].status = "active"
        /\ db[i].scheduled_time # None
        /\ db[i].scheduled_time < t + CallInterval
        /\ t < db[i].scheduled_end_time

\* C19: is_within_opening_hours is true exactly when start <= t < end for at
\* least one opening range and for no break range; with an empty opening
\* list it is false.
C19_HalfOpenHours ==
    \A t \in Instants :
        /\ is_within_opening_hours(t, opening_hours(HoursCategory), break_hours(HoursCategory))
           <=> (/\ InSomeRange(t, opening_hours(HoursCategory))
                /\ ~InSomeRange(t, break_hours(HoursCategory)))
        /\ opening_hours(HoursCategory) = <<>>
           => ~is_within_opening_hours(t, <<>>, break_hours(HoursCategory))

\* Open 09:00-10:30 with the break 09:30-10:00, and a booking made at 10:00,
\* the end of the break.
C19_Witness ==
    /\ opening_hours(HoursCategory) = << << <<9, 0>>, <<10, 30>> >> >>
    /\ break_hours(HoursCategory) = << << <<9, 30>>, <<10, 0>> >> >>
    /\ \E i \in Ids(appts) : appts[i].scheduled_time = 600

\* C20: validate_scheduled_appointment reports the first failing check of:
\* the opening list is not empty, the time is within opening hours and in no
\* break, the time is a slot start, no active booking overlaps; and no error
\* when all four pass.
C20_CheckOrder ==
    \A t \in Instants :
        validate_scheduled_appointment(appts, HoursCategory, t) =
            IF opening_hours(HoursCategory) = <<>> THEN MSG_CLOSED
            ELSE IF \/ ~InSomeRange(t, opening_hours(HoursCategory))
                    \/ InSomeRange(t, break_hours(HoursCategory))
                 THEN MSG_HOURS
            ELSE IF ~IsSlotStart(t) THEN MSG_ALIGN
            ELSE IF Overlapped(appts, t) THEN MSG_TAKEN
            ELSE ""

\* An active booking stands, and a time within hours that is no slot start
\* overlaps it.
C20_Witness ==
    \E i \in Ids(appts), t \in Instants :
        /\ appts[i].status = "active"
        /\ Overlapped(appts, t)
        /\ validate_scheduled_appointment(appts, HoursCategory, t) = MSG_ALIGN

\* C21: a time passes validate_time_alignment exactly when it is the start of
\* one of the slots generate_time_slots returned for the hours; the message
\* of the error lists the start of every slot returned, in ascending order.
C21_Alignment ==
    HasReturned =>
        /\ \A t \in Instants :
              (validate_time_alignment(t, CallInterval, opening_hours(HoursCategory),
                                       break_hours(HoursCategory)) = "")
              <=> (\E k \in DOMAIN Returned : Returned[k][1] = t)
        /\ LET listed == validate_time_alignment_listed(
                              CallInterval, opening_hours(HoursCategory),
                              break_hours(HoursCategory))
           IN  /\ listed = [k \in DOMAIN slots.slots |-> slots.slots[k][1]]
               /\ \A j, k \in DOMAIN listed :
                      j < k => listed[j][1] * 60 + listed[j][2]
                               < listed[k][1] * 60 + listed[k][2]

\* The slots of opening 09:00-10:30 with the break 09:30-10:00 and interval
\* 30 were returned, and the booking at 09:00 was made.
C21_Witness ==
    /\ HasReturned
    /\ opening_hours(HoursCategory) = << << <<9, 0>>, <<10, 30>> >> >>
    /\ break_hours(HoursCategory) = << << <<9, 30>>, <<10, 0>> >> >>
    /\ CallInterval = 30
    /\ Len(slots.slots) = 2
    /\ \E i \in Ids(appts) : appts[i].scheduled_time = 540

\* The active bookings of the category.
ActiveBookings(db) ==
    {i \in Ids(db) : /\ db[i].category = HoursCategory
                     /\ db[i].status = "active"
                     /\ db[i].scheduled_time # None}

\* C22: with an active booking A of the category over [t, t+d), a proposed
\* time whose interval overlaps A's by a minute or more is not available
\* and is rejected, as already taken when the interval is A's; a proposed
\* time that starts at t+d or ends at t is available unless another booking
\* is in the way.
C22_OverlapRejection ==
    \A a \in ActiveBookings(appts) :
        \A s \in (appts[a].scheduled_time - CallInterval - 1)
                  ..(appts[a].scheduled_end_time + 1) :
            /\ (appts[a].scheduled_time < s + CallInterval /\ s < appts[a].scheduled_end_time)
               => /\ ~is_slot_available(appts, HoursCategory, s)
                  /\ validate_scheduled_appointment(appts, HoursCategory, s) # ""
            /\ s = appts[a].scheduled_time
               => validate_scheduled_appointment(appts, HoursCategory, s) = MSG_TAKEN
            /\ (/\ s = appts[a].scheduled_end_time \/ s + CallInterval = appts[a].scheduled_time
                /\ \A b \in ActiveBookings(appts) \ {a} :
                       appts[b].scheduled_end_time <= s
                       \/ s + CallInterval <= appts[b].scheduled_time)
               => is_slot_available(appts, HoursCategory, s)

\* Two active bookings, the second made for the minute the first ends.
C22_Witness ==
    /\ Len(appts) = 2
    /\ ActiveBookings(appts) = {1, 2}
    /\ appts[2].scheduled_time = appts[1].scheduled_end_time

\* The scheduled_time of the requests of C23: before now, now, the last
\* minute max_advance_days allows and the minute after it.
HorizonTimes(c) ==
    {now - 1, now, now + max_advance_days(c) * 24 * 60, now + max_advance_days(c) * 24 * 60 + 1}

\* C23: a schedule request whose fields are valid is answered 400 "Scheduled
\* time cannot be in the past." when its time is before now and 400 with the
\* max-advance error when its time is after now + max_advance_days, whatever
\* the hours, the slots and the bookings are, and the table is unchanged;
\* a time from now to now + max_advance_days gets neither error.
C23_BookingHorizon ==
    \A actor \in Users, place \in RequestPlaces, u \in Users :
        (/\ ValidateScheduledAppointmentInputFields(place[1], place[2], u) = {}
         /\ check_category_is_active(place[2], check_organization_is_active(place[1])) # None)
        => \A t \in HorizonTimes(place[2]) :
              LET r == schedule(appts, actor, place[1], place[2], u, t)
              IN  /\ t < now => r = Resp(400, {MSG_PAST}, appts)
                  /\ t > now + max_advance_days(place[2]) * 24 * 60
                     => r = Resp(400, {MSG_ADVANCE}, appts)
                  /\ (now <= t /\ t <= now + max_advance_days(place[2]) * 24 * 60)
                     => r.errors \cap {MSG_PAST, MSG_ADVANCE} = {}

\* A booking stands, and a schedule request for the minute before now is
\* answered with the error of the past.
C23_Witness ==
    /\ \E i \in Ids(appts) : appts[i].is_scheduled /\ appts[i].status = "active"
    /\ orgStatus[1] = "active"
    /\ schedule(appts, 1, 1, 1, 1, now - 1).errors = {MSG_PAST}

\* The rows the call for appointment is to shift: active, unscheduled, of
\* its organization and category, with a counter above reference_counter
\* and, if a limit is given, below it.
InShiftRange(row, appointment, reference_counter, counter_limit) ==
    /\ row.status = "active"
    /\ ~row.is_scheduled
    /\ row.organization = appointment.organization
    /\ row.category = appointment.category
    /\ reference_counter < row.counter
    /\ counter_limit = <<>> \/ row.counter < counter_limit[1]

\* C28: adjust_appointment_counter adds 1 (increment) or -1 (decrement) to
\* the counter of every row in the shift range and leaves every other row,
\* and every other field, as it was.
C28_ShiftRange ==
    \A a \in Ids(appts), increment \in BOOLEAN,
       reference_counter \in ReferenceCounters, counter_limit \in CounterLimits :
        LET out == adjust_appointment_counter(appts, appts[a], increment,
                                              reference_counter, counter_limit)
        IN  /\ Ids(out) = Ids(appts)
            /\ \A i \in Ids(appts) :
                  IF InShiftRange(appts[i], appts[a], reference_counter, counter_limit)
                  THEN out[i] = [appts[i] EXCEPT
                                    !.counter = IF increment THEN appts[i].counter + 1
                                                ELSE appts[i].counter - 1]
                  ELSE out[i] = appts[i]

\* Two rows of one queue after a call that moved the second past every
\* counter a table starts with.
C28_Witness ==
    /\ Len(appts) = 2
    /\ InShiftRange(appts[2], appts[1], 0, <<>>)
    /\ appts[1].status = "active" /\ ~appts[1].is_scheduled
    /\ appts[1].counter = 1
    /\ appts[2].counter = MaxCounter + 1

\* The slots generate_time_slots returns for the opening list and the
\* interval of the call with the break list l.
SlotsWithBreaks(l) ==
    generate_time_slots(opening_hours(HoursCategory), l, CallInterval).slots
\* The break lists compared: the breaks of the call, alone and with one
\* more break range at the end.
ExtendedBreaks ==
    {break_hours(HoursCategory)}
    \cup {Append(break_hours(HoursCategory), c) : c \in BreakRanges}
\* Two break ranges overlap or are adjacent.
Touching(x, y) ==
    /\ RangeMinutes(x)[1] <= RangeMinutes(y)[2]
    /\ RangeMinutes(y)[1] <= RangeMinutes(x)[2]
\* The one break range that is the union of two that touch.
UnionRange(x, y) ==
    <<IF RangeMinutes(x)[1] <= RangeMinutes(y)[1] THEN x[1] ELSE y[1],
      IF RangeMinutes(x)[2] >= RangeMinutes(y)[2] THEN x[2] ELSE y[2]>>
\* The list l without its entries j and k.
Without(l, j, k) ==
    LET keep == {n \in DOMAIN l : n # j /\ n # k}
        nth[n \in 0..Len(l)] ==
            IF n = 0 THEN 0 ELSE Min({m \in keep : m > nth[n - 1]} \cup {Len(l) + 1})
    IN  [n \in 1..Cardinality(keep) |-> l[nth[n]]]

\* C29: generate_time_slots returns the same list for every permutation of
\* the break list, and for two breaks that overlap or are adjacent the list
\* it returns with their union in their place.
C29_BreakOrderAndOverlap ==
    HasReturned =>
        /\ \A p \in Permutations(DOMAIN break_hours(HoursCategory)) :
              SlotsWithBreaks([k \in DOMAIN break_hours(HoursCategory) |->
                                  break_hours(HoursCategory)[p[k]]]) = slots.slots
        /\ \A l \in ExtendedBreaks :
              /\ \A p \in Permutations(DOMAIN l) :
                    SlotsWithBreaks([k \in DOMAIN l |-> l[p[k]]]) = SlotsWithBreaks(l)
              /\ \A j, k \in DOMAIN l :
                    (j < k /\ Touching(l[j], l[k]))
                    => SlotsWithBreaks(Append(Without(l, j, k), UnionRange(l[j], l[k])))
                       = SlotsWithBreaks(l)

\* The call with opening 09:00-10:30 and the adjacent breaks 10:00-10:30 and
\* 09:30-10:00, the later one first, has returned.
C29_Witness ==
    /\ HasReturned
    /\ opening_hours(HoursCategory) = << << <<9, 0>>, <<10, 30>> >> >>
    /\ break_hours(HoursCategory) = << << <<10, 0>>, <<10, 30>> >>,
                                       << <<9, 30>>, <<10, 0>> >> >>
    /\ CallInterval = 30
    /\ Len(slots.slots) = 1

\* Rows that are to block no slot of the category: bookings of the category
\* that are cancelled, checked in or inactive, active bookings of the other
\* category, and active rows of the category with no scheduled times.
NonBlockingRows ==
    {[user |-> Booker, organization |-> category_organization(HoursCategory),
      category |-> HoursCategory, status |-> st, counter |-> 1, is_scheduled |-> TRUE,
      scheduled_time |-> t, scheduled_end_time |-> t + CallInterval] :
        st \in STATUS_CHOICES \ {"active"}, t \in Instants}
    \cup {[user |-> Booker, organization |-> category_organization(c),
           category |-> c, status |-> "active", counter |-> 1, is_scheduled |-> TRUE,
           scheduled_time |-> t, scheduled_end_time |-> t + CallInterval] :
             c \in Categories \ {HoursCategory}, t \in Instants}
    \cup {[user |-> Booker, organization |-> category_organization(HoursCategory),
           category |-> HoursCategory, status |-> "active", counter |-> 1,
           is_scheduled |-> FALSE, scheduled_time |-> None, scheduled_end_time |-> None]}

\* C30: a booking that is cancelled or checked in, a booking of another
\* category and a row with no scheduled times never make is_slot_available
\* false: with such a row added the answer is the same for every time, and
\* the time of a booking that is no longer active is accepted again unless
\* an active booking overlaps it.
C30_OnlyActiveBlocks ==
    /\ \A row \in NonBlockingRows, t \in Instants :
          is_slot_available(Append(appts, row), HoursCategory, t)
          = is_slot_available(appts, HoursCategory, t)
    /\ \A i \in Ids(appts) :
          (/\ appts[i].category = HoursCategory
           /\ appts[i].status # "active"
           /\ appts[i].scheduled_time # None
           /\ ~Overlapped(appts, appts[i].scheduled_time))
          => /\ is_slot_available(appts, HoursCategory, appts[i].scheduled_time)
             /\ validate_scheduled_appointment(appts, HoursCategory,
                                                appts[i].scheduled_time) = ""

\* The time of a cancelled booking has been booked again.
C30_Witness ==
    /\ Len(appts) = 2
    /\ appts[1].status = "cancel"
    /\ appts[2].status = "active"
    /\ appts[2].scheduled_time = appts[1].scheduled_time
\* ------------------------------------- vocabulary of the concurrency claims
\* Both requests are answered.
BothDone == \A p \in Procs : Req(p).pc = "done"
\* Worker p was answered with a success.
Succeeded(p) == Req(p).pc = "done" /\ Req(p).code \in {200, 201}
\* The queue the two requests work on is 1..N, each counter once.
QueueContiguous(db) ==
    Contiguous(db, category_organization(QueueCategory), QueueCategory)

\* C26: two unscheduled Create or Activate requests served at once on one
\* (organization, category) are never given the same counter: once both
\* have succeeded the counters of the queue are 1..N, each once.
C26_DistinctCounters ==
    (\A p \in Procs : Req(p).op \in {"create", "activate"} /\ Succeeded(p))
        => QueueContiguous(appts)

\* Two Create requests of two users have both succeeded.
C26_Witness ==
    /\ \A p \in Procs : Req(p).op = "create" /\ Succeeded(p)
    /\ Req(1).user # Req(2).user

\* The table request r leaves when it is served alone on db.
ServedAlone(db, r) ==
    CASE r.op = "create" ->
            unschedule(db, r.user, category_organization(QueueCategory),
                       QueueCategory, r.user).db
      [] r.op = "schedule" ->
            schedule(db, r.user, category_organization(QueueCategory),
                     QueueCategory, r.user, r.time).db
      [] r.op = "activate" -> activate(db, Desk, r.id).db
      [] r.op = "cancel" -> cancel(db, Desk, r.id).db
      [] r.op = "checkin" -> check_in(db, Desk, r.id).db
      [] r.op = "move" -> move(db, Desk, r.id, r.previous).db
      [] OTHER -> db
\* The table the two requests leave when p is served first, then the other.
ServedInTurn(p) ==
    ServedAlone(ServedAlone(inflight.start, Req(p)), Req(Other(p)))
\* The kinds of the two requests: a cancel and a check-in are one kind.
Kind(p) == IF Req(p).op = "checkin" THEN "cancel" ELSE Req(p).op
Kinds == {Kind(p) : p \in Procs}

\* C27: no update is lost between a Move, a Create and a Cancel or Check-in
\* served at once: for Move/Move, Move/Cancel, Move/Create and Cancel/Create,
\* whose service one after the other leaves the queue 1..N, the queue is
\* 1..N once both are answered.
C27_NoLostUpdate ==
    ( /\ Kinds \in {{"move"}, {"move", "cancel"}, {"move", "create"},
                     {"cancel", "create"}}
      /\ BothDone
      /\ \A p \in Procs : QueueContiguous(ServedInTurn(p)) )
        => QueueContiguous(appts)

\* A Cancel and a Create are both answered with a success.
C27_Witness ==
    /\ Kinds = {"cancel", "create"}
    /\ \A p \in Procs : Succeeded(p)

\* The table the request beside that of worker p, once answered, leaves
\* when it is served alone: a request that failed leaves the table as it was.
LeftByOther(p) ==
    IF Req(Other(p)).code = 500 THEN inflight.start
    ELSE ServedAlone(inflight.start, Req(Other(p)))

\* The Move of worker p failed after it had saved its row as inactive.
MoveFailedAfterInactive(p) ==
    /\ Req(p).op = "move" /\ Req(p).pc = "done"
    /\ Req(p).code = 500 /\ Req(p).at = "shift"

\* C24: a Move that fails after its current appointment was marked inactive
\* is rolled back whole: once both requests are answered the committed table
\* is the table as it would be had the Move not been sent, the one the
\* other request leaves when served alone.
C24_MoveAllOrNothing ==
    \A p \in Procs :
        MoveFailedAfterInactive(p) /\ Req(Other(p)).pc = "done" =>
            appts = LeftByOther(p)

\* A Move has failed at previous_appointment.counter, its row saved as
\* inactive before: the other request cancelled the previous appointment
\* after the Move was validated.
C24_Witness ==
    \E p \in Procs :
        /\ MoveFailedAfterInactive(p)
        /\ Req(p).previous # None /\ Req(p).prev = <<>>
        /\ Req(p).mem # <<>> /\ Req(p).mem[1].status = "inactive"
        /\ Req(Other(p)).op = "cancel" /\ Succeeded(Other(p))
        /\ appts # inflight.start

\* The Move of worker p is inside transaction.atomic().
MoveInProgress(p) ==
    Req(p).op = "move" /\ Req(p).pc \in {"get", "inactive", "shift", "save", "commit"}

\* C25: a reader of the committed table never sees the intermediate state of
\* a Move: no committed row is ever inactive, and while a Move is in
\* progress the committed table is the one without the Move, the table the
\* requests started on while the other request has done nothing and the
\* table the other request alone leaves once that one is answered.
C25_MoveIsolated ==
    /\ \A i \in Ids(appts) : appts[i].status # "inactive"
    /\ \A p \in Procs :
           MoveInProgress(p) =>
               /\ Req(Other(p)).pc = "start" => appts = inflight.start
               /\ Req(Other(p)).pc = "done" =>
                      appts = LeftByOther(p)

\* A Move has written its row as inactive and renumbered another row, and
\* the committed table still is the one the requests started on.
C25_Witness ==
    \E p \in Procs :
        /\ MoveInProgress(p) /\ Req(p).pc = "save"
        /\ Req(p).id \in DOMAIN Req(p).writes
        /\ Req(p).writes[Req(p).id].status = "inactive"
        /\ \E i \in DOMAIN Req(p).writes :
               i # Req(p).id /\ Req(p).writes[i].counter # appts[i].counter
        /\ Req(Other(p)).pc = "start"
        /\ appts = inflight.start

\* ---------------------------------------------------------------- C31
\* The counters of the active unscheduled rows of db are those of out.
QueueCountersKept(db, out) ==
    \A i \in Ids(db) : InQueue(db, i) => out[i].counter = db[i].counter

\* C31: a scheduled Create that succeeds appends a row with is_scheduled
\* true, status active and scheduled_end_time = scheduled_time + the
\* interval of the category and changes no other row; and a scheduled row
\* takes no part in the counters of the unscheduled queue: the counter of
\* the next unscheduled Create does not count it, and a Cancel, Check-in or
\* Move that names it changes the counter of no active unscheduled row.
C31_ScheduledApart ==
    /\ \A actor \in Users, place \in RequestPlaces, u \in ScheduleUsers,
          t \in ScheduleTimes :
           LET r == schedule(appts, actor, place[1], place[2], u, t)
               n == Len(r.db)
           IN  r.code = 201 =>
                   /\ n = Len(appts) + 1
                   /\ r.db[n].is_scheduled /\ r.db[n].status = "active"
                   /\ r.db[n].scheduled_time = t
                   /\ r.db[n].scheduled_end_time
                          = t + time_interval_per_appointment(place[2])
                   /\ \A i \in Ids(appts) : r.db[i] = appts[i]
                   /\ \A o \in Organizations, c \in Categories :
                          get_last_counter_for_appointment(r.db, o, c)
                              = get_last_counter_for_appointment(appts, o, c)
    /\ \A actor \in Users, pk \in Ids(appts) :
           appts[pk].is_scheduled =>
               /\ cancel(appts, actor, pk).code = 200
                      => QueueCountersKept(appts, cancel(appts, actor, pk).db)
               /\ check_in(appts, actor, pk).code = 200
                      => QueueCountersKept(appts, check_in(appts, actor, pk).db)
               /\ \A other \in (Ids(appts) \ {pk}) \cup {None} :
                      /\ move(appts, actor, pk, other).code = 200
                             => QueueCountersKept(appts, move(appts, actor, pk, other).db)
                      /\ (other # None /\ move(appts, actor, other, pk).code = 200)
                             => QueueCountersKept(appts, move(appts, actor, other, pk).db)

\* A scheduled Create has succeeded beside two rows of the unscheduled
\* queue, and the Cancel of the scheduled row is accepted.
C31_Witness ==
    \E pk, i, j \in Ids(appts) :
        /\ appts[pk].is_scheduled /\ appts[pk].status = "active"
        /\ i # j /\ InQueue(appts, i) /\ InQueue(appts, j)
        /\ cancel(appts, appts[pk].user, pk).code = 200

\* ---------------------------------------------------------------- C32
\* C32: a Cancel or Check-in is one unit of work: while the other request
\* has done nothing, the committed table is the table before the request
\* or the table the whole request leaves, never the one with the status of
\* the target changed and the counters behind it not yet lowered.
C32_StatusChangeAtomic ==
    \A p \in Procs :
        (Req(p).op \in {"cancel", "checkin"} /\ Req(Other(p)).pc = "start")
            => appts \in {inflight.start, ServedAlone(inflight.start, Req(p))}

\* A Cancel or Check-in of an active row has saved the status and not yet
\* run adjust_appointment_counter, and a row of the queue is behind it.
C32_Witness ==
    \E p \in Procs :
        /\ Req(p).op \in {"cancel", "checkin"} /\ Req(p).pc = "adjust"
        /\ Req(Other(p)).pc = "start"
        /\ inflight.start[Req(p).id].status = "active"
        /\ \E i \in Ids(appts) :
               /\ appts[i].status = "active"
               /\ appts[i].counter > Req(p).mem[1].counter

\* ---------------------------------------------------------------- C33
\* C33: a Move whose current appointment is a row that is not active
\* (cancel, checkin, inactive), asked by an actor with access to the row, is
\* rejected with a validation error and changes no row.
C33_MoveOnlyActive ==
    \A actor \in Users, current \in Ids(appts),
       previous \in AppointmentIds \cup {None} :
        (appts[current].status # "active" /\ MoveAdmitted(appts, actor, current))
        => /\ move(appts, actor, current, previous).code = 400
           /\ move(appts, actor, current, previous).db = appts

\* The user of a cancelled row asks to move it to the front: the
\* serializer accepts the request and move_appointment finds no row.
C33_Witness ==
    \E current \in Ids(appts) :
        /\ appts[current].status = "cancel"
        /\ MoveAppointmentIDValidatorSerializer(
               appts, appts[current].user, current, None) = "ok"
        /\ get_appointment_by_id(appts, current, "active") = None
        /\ move(appts, appts[current].user, current, None).code = 500

\* ---------------------------------------------------------------- C34
\* C34: every Move that completes leaves its current appointment active, in
\* the three branches and when no branch applies (the counters of current
\* and previous are equal), and changes the status of no other row; no row
\* of the table is inactive.
C34_InactiveTransient ==
    /\ \A i \in Ids(appts) : appts[i].status # "inactive"
    /\ \A actor \in Users, pk \in AppointmentIds,
          previous \in AppointmentIds \cup {None} :
           LET r == move(appts, actor, pk, previous)
           IN  r.code = 200 =>
                   /\ r.db[pk].status = "active"
                   /\ \A i \in Ids(appts) \ {pk} : r.db[i].status = appts[i].status

\* A Move is accepted whose current and previous appointments have the
\* same counter (no branch applies), beside a cancelled row.
C34_Witness ==
    \E pk, previous, other \in Ids(appts) :
        /\ pk # previous /\ other \notin {pk, previous}
        /\ appts[pk].counter = appts[previous].counter
        /\ appts[other].status = "cancel"
        /\ move(appts, appts[pk].user, pk, previous).code = 200
        /\ move(appts, appts[pk].user, pk, previous).db[pk].status = "active"

\* ---------------------------------------------------------------- C35
\* Rows i and j of db have a minute in common.
BookingsOverlap(db, i, j) ==
    /\ db[i].scheduled_time < db[j].scheduled_end_time
    /\ db[j].scheduled_time < db[i].scheduled_end_time

\* C35: after any sequence of scheduled Create, Cancel and Check-in requests
\* served one at a time on a category whose interval does not change, no two
\* active scheduled appointments of the category overlap.
C35_NoDoubleBooking ==
    \A i, j \in ActiveBookings(appts) : i # j => ~BookingsOverlap(appts, i, j)

\* Two active bookings of the category, the second from the minute the
\* first ends.
C35_Witness ==
    \E i, j \in ActiveBookings(appts) :
        /\ appts[i].is_scheduled /\ appts[j].is_scheduled
        /\ appts[j].scheduled_time = appts[i].scheduled_end_time

\* ---------------------------------------------------------------- C36
\* C36: of two scheduled Create requests for one slot of one category that
\* are served at once, not both succeed: in every interleaving at most one
\* active appointment occupies the slot.
C36_OneBookingPerSlot ==
    /\ ~ \A p \in Procs :
            /\ Req(p).op = "schedule" /\ Succeeded(p)
            /\ Req(p).time = Req(Other(p)).time
    /\ \A i, j \in Ids(appts) :
           ( /\ i # j
             /\ appts[i].is_scheduled /\ appts[j].is_scheduled
             /\ appts[i].status = "active" /\ appts[j].status = "active"
             /\ appts[i].category = appts[j].category )
           => ~BookingsOverlap(appts, i, j)

\* Two scheduled Create requests name the same slot and one of them has
\* succeeded.
C36_Witness ==
    \E p \in Procs :
        /\ Req(p).op = "schedule" /\ Req(Other(p)).op = "schedule"
        /\ Req(p).time = Req(Other(p)).time
        /\ Succeeded(p)

\* ---------------------------------------------------------------- C37
\* C37: after any sequence of requests served one at a time, no user has two
\* active unscheduled appointments in one (organization, category).
C37_OnePlacePerUser ==
    \A i, j \in Ids(appts) :
        (i # j /\ InQueue(appts, i) /\ InQueue(appts, j) /\ SamePlace(appts, i, j))
            => appts[i].user # appts[j].user

\* A user has a cancelled row and an active row in the queue, and the
\* Activate of the cancelled row is refused as a duplicate.
C37_Witness ==
    \E i, j \in Ids(appts) :
        /\ appts[i].status = "cancel" /\ ~appts[i].is_scheduled
        /\ InQueue(appts, j) /\ SamePlace(appts, i, j)
        /\ appts[i].user = appts[j].user
        /\ activate(appts, appts[i].user, i).code = 400
        /\ activate(appts, appts[i].user, i).db = appts

\* ---------------------------------------------------------------- C38
\* The counters of every queue of db are 1..N, each once.
AllContiguous(db) ==
    \A o \in Organizations, c \in Categories : Contiguous(db, o, c)

\* Rows current and previous of db are active and not two rows of one
\* queue: one of them is scheduled, or they are of two places.
MoveAcrossQueues(db, current, previous) ==
    /\ current \in Ids(db) /\ previous \in Ids(db) /\ current # previous
    /\ db[current].status = "active" /\ db[previous].status = "active"
    /\ \/ db[current].is_scheduled
       \/ db[previous].is_scheduled
       \/ ~SamePlace(db, current, previous)

\* C38: on a table whose queues all count 1..N, a Move whose current and
\* previous appointments are active rows of two (organization, category)
\* pairs, or of which one is scheduled, is rejected or leaves every queue
\* counting 1..N without duplicates.
C38_MoveAcrossQueues ==
    \A actor \in Users, current \in Ids(appts), previous \in Ids(appts) :
        (AllContiguous(appts) /\ MoveAcrossQueues(appts, current, previous))
            => \/ move(appts, actor, current, previous).code # 200
               \/ AllContiguous(move(appts, actor, current, previous).db)

\* The queue of one category has one row, that of another has two, and
\* the Move of the first behind the last of the other is accepted.
C38_Witness ==
    \E current, previous \in Ids(appts) :
        /\ AllContiguous(appts)
        /\ InQueue(appts, current) /\ InQueue(appts, previous)
        /\ ~SamePlace(appts, current, previous)
        /\ appts[current].counter = 1 /\ appts[previous].counter = 2
        /\ move(appts, appts[current].user, current, previous).code = 200

\* ---------------------------------------------------------------- C39
\* C39: for every category that passes Category.clean, intervals shorter
\* than a minute included, the call of validate_scheduled_appointment comes
\* to the end of the tiling loop of generate_time_slots.
C39_TilingTerminates == <>(tiling.pc = "returned")

\* The loop has appended MaxTiled slots, more than any call that returns,
\* and current_time is where the block starts.
C39_Witness ==
    /\ tiling.pc = "loop" /\ tiling.blocks # <<>>
    /\ TilingInterval = 0
    /\ tiling.appended = MaxTiled
    /\ tiling.current_time = Head(tiling.blocks)[1]

\* ---------------------------------------------------------------- C40
\* The call of validate_scheduled_appointment has returned without a
\* ValidationError: the time asked for is accepted.
TimeAccepted ==
    /\ tiling.pc = "returned"
    /\ TilingInterval > 0
    /\ validate_scheduled_appointment(appts, HoursCategory, tiling.scheduled_time) = ""
\* The seconds [from, to) lie inside the opening range and meet no break.
FitsHours(from, to) ==
    LET opening == opening_hours(HoursCategory)
        breaks == break_hours(HoursCategory)
    IN  /\ str_to_time(opening[1][1]) * 60 <= from
        /\ to <= str_to_time(opening[1][2]) * 60
        /\ \A k \in DOMAIN breaks :
               ~( /\ from < str_to_time(breaks[k][2]) * 60
                  /\ str_to_time(breaks[k][1]) * 60 < to )

\* C40: for every category that passes Category.clean and every time t that
\* validate_scheduled_appointment accepts, the whole of
\* [t, t + time_interval_per_appointment) lies inside the opening range of
\* the weekday and meets no break.
C40_BookingFitsBlock ==
    TimeAccepted
        => FitsHours(tiling.scheduled_time * 60,
                     tiling.scheduled_time * 60 + tiling.duration)

\* A time is accepted whose slot, in whole minutes, ends where a break
\* starts, for an interval that is not a whole number of minutes.
C40_Witness ==
    /\ TimeAccepted
    /\ tiling.duration % 60 # 0
    /\ \E k \in DOMAIN break_hours(HoursCategory) :
           str_to_time(break_hours(HoursCategory)[k][1])
               = tiling.scheduled_time + TilingInterval

====
